---- MODULE Spec2Model ----
(***************************************************************************)
(* Whiteboard animation timeline engine of LearnAI.                        *)
(*                                                                         *)
(*   - whiteboardSceneGenerator (src/unnamed/part_008): Timeline,          *)
(*     TextStrokeCompiler and WhiteboardSceneGenerator, the compiler from  *)
(*     slide content items to timed DrawingActions;                        *)
(*   - whiteboardEngine (src/unnamed/part_007): WhiteboardEngine, the      *)
(*     evaluator of an action at an elapsed time, with its path cache;     *)
(*   - textToPath (src/src/utils/textToPath.ts): the glyph table.          *)
(*                                                                         *)
(* Times are integers in milliseconds (0.1 s = 100).  A JavaScript number  *)
(* that can be NaN or Infinity is a record [k, v] (Fin, NaN, Inf).  A      *)
(* string is a sequence of one-character strings.  An SVG path string is   *)
(* a record naming what it was built from; of its text only the number of  *)
(* path commands is used by the code modelled here, and it is kept.        *)
(***************************************************************************)
EXTENDS Integers, Sequences, FiniteSets, TLC

VARIABLES
    slide,      \* the slide last converted
    scene,      \* the scene compiled from it
    timeline,   \* the Timeline object of convertSlidesToWhiteboardScenes
    nScenes,    \* scenes.length
    pathCache,  \* WhiteboardEngine.pathCache
    domOk,      \* whether the host offers a document to measure paths with
    cur,        \* the last evaluation made: its arguments and its result
    intents,    \* the semantic actions compiled into the scene, in order
    reserved    \* the last call of Timeline.nextAvailableSlot and its result

vars ==
    <<slide, scene, timeline, nScenes, pathCache, domOk, cur, intents, reserved>>

(***************************************************************************)
(* Bounds of the model.                                                    *)
(***************************************************************************)
MaxTextLen == 2
MaxItems == 2
MaxSlides == 2

(***************************************************************************)
(* JavaScript numbers.                                                     *)
(***************************************************************************)
Fin(n) == [k |-> "fin", v |-> n]
NaN == [k |-> "nan", v |-> 0]
Inf == [k |-> "inf", v |-> 0]

isNaN(x) == x.k = "nan"
isFinite(x) == x.k = "fin"

Max(a, b) == IF a >= b THEN a ELSE b
Min(a, b) == IF a <= b THEN a ELSE b

\* x + y for an integer x and a JavaScript number y
NumAdd(x, y) == IF isFinite(y) THEN Fin(x + y.v) ELSE y

\* x || d : a number is falsy when it is 0 or NaN
NumOr(x, d) == IF isNaN(x) \/ (isFinite(x) /\ x.v = 0) THEN d ELSE x

\* the sum of a sequence of integers, left to right
RECURSIVE SumSeq(_)
SumSeq(s) == IF s = << >> THEN 0 ELSE SumSeq(SubSeq(s, 1, Len(s) - 1)) + s[Len(s)]

\* smallest integer >= a / b, for b > 0
CeilDiv(a, b) == IF a % b = 0 THEN a \div b ELSE (a \div b) + 1

(***************************************************************************)
(* Glyph Path Library (textToPath.ts).  LETTER_PATHS gives, for each       *)
(* character of the table, the number of path commands of each stroke.     *)
(***************************************************************************)
LETTER_PATHS ==
    "P" :> <<4>> @@ "Y" :> <<3, 2>> @@ "T" :> <<2, 2>> @@
    "H" :> <<2, 2, 2>> @@ "O" :> <<3>> @@ "N" :> <<4>> @@ "R" :> <<4, 2>> @@
    "G" :> <<5>> @@ "A" :> <<3, 2>> @@ "M" :> <<5>> @@ "I" :> <<2, 2, 2>> @@
    "L" :> <<3>> @@ "E" :> <<4, 2>> @@ "S" :> <<4>> @@ "C" :> <<4>> @@
    "D" :> <<5>> @@ "U" :> <<4>> @@ "W" :> <<5>> @@ "B" :> <<2, 3>> @@
    "F" :> <<3, 2>> @@ "V" :> <<3>> @@ "K" :> <<2, 3>> @@ "X" :> <<2, 2>> @@
    "Z" :> <<4>> @@ "J" :> <<2, 3>> @@ "Q" :> <<3, 2>> @@ "a" :> <<5, 2>> @@
    "b" :> <<2, 5>> @@ "c" :> <<4>> @@ "d" :> <<2, 5>> @@ "e" :> <<2, 4>> @@
    "f" :> <<2, 2, 2>> @@ "g" :> <<4, 3>> @@ "h" :> <<2, 2, 3>> @@
    "i" :> <<2, 3>> @@ "j" :> <<2, 2, 3>> @@ "k" :> <<2, 2, 2>> @@
    "l" :> <<2, 2>> @@ "m" :> <<5, 4>> @@ "n" :> <<5>> @@ "o" :> <<5>> @@
    "p" :> <<2, 5>> @@ "q" :> <<2, 5, 2>> @@ "r" :> <<2, 3>> @@
    "s" :> <<4>> @@ "t" :> <<2, 2>> @@ "u" :> <<4, 4>> @@ "v" :> <<3>> @@
    "w" :> <<5>> @@ "x" :> <<3, 3>> @@ "y" :> <<3, 2>> @@ "z" :> <<4>> @@
    "0" :> <<5, 2>> @@ "1" :> <<2, 3>> @@ "2" :> <<4>> @@ "3" :> <<3, 3>> @@
    "4" :> <<3, 2>> @@ "5" :> <<6>> @@ "6" :> <<5>> @@ "7" :> <<2, 2>> @@
    "8" :> <<3, 3>> @@ "9" :> <<5>> @@ " " :> <<>> @@ "." :> <<3>> @@
    "," :> <<2>> @@ "!" :> <<2, 2>> @@ "?" :> <<3, 2>> @@ "-" :> <<2>> @@
    ":" :> <<2, 2>> @@ "'" :> <<2>> @@ "/" :> <<2>>

LowerToUpper ==
    "a" :> "A" @@ "b" :> "B" @@ "c" :> "C" @@ "d" :> "D" @@ "e" :> "E" @@
    "f" :> "F" @@ "g" :> "G" @@ "h" :> "H" @@ "i" :> "I" @@ "j" :> "J" @@
    "k" :> "K" @@ "l" :> "L" @@ "m" :> "M" @@ "n" :> "N" @@ "o" :> "O" @@
    "p" :> "P" @@ "q" :> "Q" @@ "r" :> "R" @@ "s" :> "S" @@ "t" :> "T" @@
    "u" :> "U" @@ "v" :> "V" @@ "w" :> "W" @@ "x" :> "X" @@ "y" :> "Y" @@
    "z" :> "Z"

toUpperCase(ch) == IF ch \in DOMAIN LowerToUpper THEN LowerToUpper[ch] ELSE ch

PlaceholderCmds == 5

\* LETTER_PATHS[char] || LETTER_PATHS[char.toUpperCase()]
lookupPaths(ch) ==
    IF ch \in DOMAIN LETTER_PATHS THEN LETTER_PATHS[ch]
    ELSE IF toUpperCase(ch) \in DOMAIN LETTER_PATHS
    THEN LETTER_PATHS[toUpperCase(ch)]
    ELSE << >>

\* a character without paths gets no placeholder
placePaths_NoPlaceholder(paths, ch, x, scale) ==
    [i \in 1..Len(paths) |->
        [glyph |-> ch, idx |-> i, x |-> x, scale |-> scale, cmds |-> paths[i]]]

\* the paths of a character moved to horizontal offset x, or the placeholder
placePaths(paths, ch, x, scale) ==
    IF Len(paths) = 0
    THEN IF ch # " "
         THEN << [glyph |-> "placeholder", idx |-> 1, x |-> x,
                  scale |-> scale, cmds |-> PlaceholderCmds] >>
         ELSE << >>
    ELSE [i \in 1..Len(paths) |->
             [glyph |-> ch, idx |-> i, x |-> x, scale |-> scale,
              cmds |-> paths[i]]]

\* the strokes of one character drawn at horizontal offset x
getCharacterPath(ch, x, scale) == placePaths(lookupPaths(ch), ch, x, scale)

estimatePathLength(path) == Max(path.cmds * 40, 60)

LetterWidth == 28
SpaceWidth == 16

\* the segments of the paths of one character
segmentsOf(charPaths) ==
    [j \in 1..Len(charPaths) |->
        [d |-> charPaths[j], length |-> estimatePathLength(charPaths[j])]]

\* the segments of text[i..], the pen being at horizontal offset x
RECURSIVE SegmentsFrom(_, _, _, _)
SegmentsFrom(text, i, x, scale) ==
    IF i > Len(text) THEN << >>
    ELSE IF text[i] = " " THEN SegmentsFrom(text, i + 1, x + SpaceWidth, scale)
    ELSE segmentsOf(getCharacterPath(text[i], x, scale))
            \o SegmentsFrom(text, i + 1, x + LetterWidth, scale)

textToPathSegments(text, scale) == SegmentsFrom(text, 1, 0, scale)

(***************************************************************************)
(* Timeline (part_008, 27-68): the slot allocator.                         *)
(***************************************************************************)
NarrationPause == 300
SlotGap == 100
MinSlot == 100
NonFiniteSlot == 500

NewTimeline == [currentTime |-> 0, cameraBusyUntil |-> 0]

\* a finite duration is taken as it is, without the floor of 0.1
safeDurationOf_NoFloor(duration) ==
    IF isNaN(duration) \/ ~isFinite(duration) THEN NonFiniteSlot
    ELSE duration.v

safeDurationOf(duration) ==
    IF isNaN(duration) \/ ~isFinite(duration) THEN NonFiniteSlot
    ELSE Max(MinSlot, duration.v)

\* a camera slot starts when the camera is free, even before the cursor
nextAvailableSlot_CameraOnly(tl, duration, needsCamera, narrationPause) ==
    [start |-> (IF needsCamera THEN tl.cameraBusyUntil ELSE tl.currentTime)
                  + (IF narrationPause THEN NarrationPause ELSE 0),
     tl |-> [currentTime |->
                (IF needsCamera THEN tl.cameraBusyUntil ELSE tl.currentTime)
                    + (IF narrationPause THEN NarrationPause ELSE 0)
                    + safeDurationOf(duration) + SlotGap,
             cameraBusyUntil |->
                IF needsCamera
                THEN tl.cameraBusyUntil
                        + (IF narrationPause THEN NarrationPause ELSE 0)
                        + safeDurationOf(duration) + SlotGap
                ELSE tl.cameraBusyUntil]]

\* the reservation leaves out the breathing room before a narrated slot
nextAvailableSlot_NoPause(tl, duration, needsCamera, narrationPause) ==
    LET slotStart == IF needsCamera THEN Max(tl.currentTime, tl.cameraBusyUntil)
                     ELSE tl.currentTime
        slotEnd == slotStart + safeDurationOf(duration) + SlotGap
    IN [start |-> slotStart,
        tl |-> [currentTime |-> slotEnd,
                cameraBusyUntil |-> IF needsCamera THEN slotEnd
                                    ELSE tl.cameraBusyUntil]]

\* the camera stays busy for half a second after its slot
nextAvailableSlot_CameraLag(tl, duration, needsCamera, narrationPause) ==
    LET base == IF needsCamera THEN Max(tl.currentTime, tl.cameraBusyUntil)
                ELSE tl.currentTime
        slotStart == IF narrationPause THEN base + NarrationPause ELSE base
        slotEnd == slotStart + safeDurationOf(duration) + SlotGap
    IN [start |-> slotStart,
        tl |-> [currentTime |-> slotEnd,
                cameraBusyUntil |-> IF needsCamera THEN slotEnd + 500
                                    ELSE tl.cameraBusyUntil]]

\* the reservation forgets the duration of the slot
nextAvailableSlot_NoDuration(tl, duration, needsCamera, narrationPause) ==
    LET base == IF needsCamera THEN Max(tl.currentTime, tl.cameraBusyUntil)
                ELSE tl.currentTime
        slotStart == IF narrationPause THEN base + NarrationPause ELSE base
        slotEnd == slotStart + SlotGap
    IN [start |-> slotStart,
        tl |-> [currentTime |-> slotEnd,
                cameraBusyUntil |-> IF needsCamera THEN slotEnd
                                    ELSE tl.cameraBusyUntil]]

\* returns the slot start and the timeline after the reservation
nextAvailableSlot(tl, duration, needsCamera, narrationPause) ==
    LET base == IF needsCamera THEN Max(tl.currentTime, tl.cameraBusyUntil)
                ELSE tl.currentTime
        slotStart == IF narrationPause THEN base + NarrationPause ELSE base
        slotEnd == slotStart + safeDurationOf(duration) + SlotGap
    IN [start |-> slotStart,
        tl |-> [currentTime |-> slotEnd,
                cameraBusyUntil |-> IF needsCamera THEN slotEnd
                                    ELSE tl.cameraBusyUntil]]

reset(tl) == [currentTime |-> 0, cameraBusyUntil |-> 0]

getCurrentTime(tl) == tl.currentTime

(***************************************************************************)
(* TextStrokeCompiler.compile (part_008, 78-110).                          *)
(***************************************************************************)
durationPerChar == [slow |-> 150, medium |-> 100, fast |-> 60]
MinStrokeDuration == 100
MaxStrokeDuration == 500

\* the duration of a stroke without its bounds
strokeDuration_NoClamp(estimatedLength, speed) ==
    (estimatedLength * durationPerChar[speed]) \div 100

strokeDuration(estimatedLength, speed) ==
    Max(MinStrokeDuration,
        Min((estimatedLength * durationPerChar[speed]) \div 100, MaxStrokeDuration))

\* the loop over the segments (part_008, 97-107)
strokesOf(segments, speed) ==
    [i \in 1..Len(segments) |->
        [path |-> segments[i].d,
         duration |-> strokeDuration(segments[i].length, speed)]]

compile(text, fontSize, speed) ==
    strokesOf(textToPathSegments(text, fontSize), speed)

(***************************************************************************)
(* DrawingAction values.  An optional field is a sequence of length 0 or   *)
(* 1; a position is a pair <<x, y>>.                                       *)
(***************************************************************************)
DefaultPos == <<960, 540>>

BlankAction ==
    [type |-> "pause", startTime |-> 0, duration |-> Fin(0), text |-> << >>,
     fontSize |-> 0, position |-> << >>, path |-> << >>, start |-> << >>,
     end |-> << >>, handVisible |-> TRUE, strokes |-> << >>,
     cameraMove |-> FALSE, speed |-> "medium"]

ShapePath(name, cmds) ==
    [glyph |-> name, idx |-> 1, x |-> 0, scale |-> 0, cmds |-> cmds]

\* strokes.reduce((sum, stroke) => sum + stroke.duration, 0) (part_008, 344)
sumOfDurations(strokes) ==
    SumSeq([i \in 1..Len(strokes) |-> strokes[i].duration])

\* the action stores the duration of its slot instead of the sum of its strokes
strokeSequenceAction_SlotDuration(text, position, fontSize, speed, strokes, totalDuration, startTime) ==
    [BlankAction EXCEPT !.type = "write", !.startTime = startTime,
        !.duration = Fin(safeDurationOf(Fin(totalDuration))),
        !.text = text, !.fontSize = fontSize, !.position = <<position>>,
        !.speed = speed, !.handVisible = TRUE, !.strokes = strokes]

\* the action returned by createStrokeSequenceAction (part_008, 369-385)
strokeSequenceAction(text, position, fontSize, speed, strokes, totalDuration, startTime) ==
    [BlankAction EXCEPT !.type = "write", !.startTime = startTime,
        !.duration = Fin(totalDuration),
        !.text = text, !.fontSize = fontSize, !.position = <<position>>,
        !.speed = speed, !.handVisible = TRUE, !.strokes = strokes]

\* createStrokeSequenceAction once the slot is reserved (part_008, 347-385)
strokeSequenceInSlot(text, position, fontSize, speed, strokes, totalDuration, slot) ==
    [action |-> strokeSequenceAction(text, position, fontSize, speed, strokes,
                                     totalDuration, slot.start),
     tl |-> slot.tl]

\* createStrokeSequenceAction once the strokes are compiled (part_008, 344-385)
strokeSequenceOf(text, position, fontSize, tl, speed, strokes, totalDuration) ==
    strokeSequenceInSlot(text, position, fontSize, speed, strokes, totalDuration,
        nextAvailableSlot(tl, Fin(totalDuration), FALSE, TRUE))

strokeSequenceOfStrokes(text, position, fontSize, tl, speed, strokes) ==
    strokeSequenceOf(text, position, fontSize, tl, speed, strokes,
                     sumOfDurations(strokes))

\* createStrokeSequenceAction (part_008, 334-386): the action and the
\* timeline after
createStrokeSequenceAction(text, position, fontSize, tl, speed) ==
    strokeSequenceOfStrokes(text, position, fontSize, tl, speed,
                            compile(text, fontSize, speed))

ArrowLineDuration == 800
ArrowHeadDuration == 700

\* createArrowStrokes (part_008, 391-421)
createArrowStrokes(from, to, startTime) ==
    [BlankAction EXCEPT !.type = "draw", !.startTime = startTime,
        !.duration = Fin(ArrowLineDuration + ArrowHeadDuration),
        !.path = <<ShapePath("arrow", 5)>>,
        !.start = <<from>>, !.end = <<to>>, !.handVisible = TRUE]

\* an underline is drawn in 1.2 s
createEmphasisAction_Slow(method, startTime) ==
    IF method = "circle"
    THEN [BlankAction EXCEPT !.type = "circle", !.startTime = startTime,
             !.duration = Fin(1000), !.path = <<ShapePath("circle", 5)>>,
             !.position = <<DefaultPos>>, !.handVisible = TRUE]
    ELSE IF method = "underline"
    THEN [BlankAction EXCEPT !.type = "underline", !.startTime = startTime,
             !.duration = Fin(1200), !.handVisible = TRUE]
    ELSE [BlankAction EXCEPT !.type = "highlight", !.startTime = startTime,
             !.duration = Fin(500), !.speed = "fast", !.handVisible = FALSE]

\* createEmphasisAction (part_008, 426-482)
createEmphasisAction(method, startTime) ==
    IF method = "circle"
    THEN [BlankAction EXCEPT !.type = "circle", !.startTime = startTime,
             !.duration = Fin(1000), !.path = <<ShapePath("circle", 5)>>,
             !.position = <<DefaultPos>>, !.handVisible = TRUE]
    ELSE IF method = "underline"
    THEN [BlankAction EXCEPT !.type = "underline", !.startTime = startTime,
             !.duration = Fin(800), !.handVisible = TRUE]
    ELSE [BlankAction EXCEPT !.type = "highlight", !.startTime = startTime,
             !.duration = Fin(500), !.speed = "fast", !.handVisible = FALSE]

\* the pan lasts longer than the 1.2 s reserved for it
createCameraAction_Long(startTime) ==
    [BlankAction EXCEPT !.type = "pause", !.startTime = startTime,
        !.duration = Fin(2000), !.handVisible = FALSE, !.cameraMove = TRUE]

\* createCameraAction (part_008, 487-505)
createCameraAction(startTime) ==
    [BlankAction EXCEPT !.type = "pause", !.startTime = startTime,
        !.duration = Fin(1200), !.handVisible = FALSE, !.cameraMove = TRUE]

\* createImageAction (part_008, 577-597)
createImageAction(position, startTime) ==
    [BlankAction EXCEPT !.type = "image", !.startTime = startTime,
        !.duration = Fin(2000), !.position = <<position>>,
        !.handVisible = TRUE]

(***************************************************************************)
(* Semantic teaching actions (part_008, 17-22).                            *)
(***************************************************************************)
BlankSemantic ==
    [kind |-> "transition", concept |-> << >>, isExplicitVisual |-> FALSE,
     position |-> DefaultPos, from |-> << >>, to |-> << >>,
     fromPos |-> <<500, 400>>, toPos |-> <<1420, 400>>,
     method |-> "circle", duration |-> Fin(0)]

ImagePrefix == <<"[", "I", "M", "A", "G", "E", ":">>

startsWith(text, prefix) ==
    Len(text) >= Len(prefix) /\ SubSeq(text, 1, Len(prefix)) = prefix

Abs(n) == IF n < 0 THEN -n ELSE n

CameraThreshold == 400

\* the pause after a concept (part_008, 254 and 258)
ThinkingBeat == 500

\* the action is put at the head of the list
emit_Prepend(st, action, tl) == [actions |-> <<action>> \o st.actions, tl |-> tl]

\* The compilation of a semantic action threads a record st: the actions
\* pushed so far and the timeline.
emit(st, action, tl) == [actions |-> Append(st.actions, action), tl |-> tl]

\* actions.push of a stroke sequence w = [action, tl]
emitWrite(st, w) == emit(st, w.action, w.tl)

writeStep(st, text, position, fontSize) ==
    emitWrite(st, createStrokeSequenceAction(text, position, fontSize, st.tl,
                                             "medium"))

\* the image of an '[IMAGE: url]' concept (part_008, 221-228)
imageInSlot(st, position, slot) ==
    emit(st, createImageAction(position, slot.start), slot.tl)

imageStep(st, position) ==
    imageInSlot(st, position, nextAvailableSlot(st.tl, Fin(2000), FALSE, FALSE))

\* the pause starts with the scene instead of at the current time
thinkingBeatStep_AtZero(st) ==
    emit(st,
         [BlankAction EXCEPT !.type = "pause", !.startTime = 0,
             !.duration = Fin(ThinkingBeat), !.handVisible = FALSE],
         nextAvailableSlot(st.tl, Fin(ThinkingBeat), FALSE, FALSE).tl)

\* the pause after a concept (part_008, 243-258): it starts at the current
\* time of the timeline, and its slot is reserved afterwards
thinkingBeatStep(st) ==
    emit(st,
         [BlankAction EXCEPT !.type = "pause",
             !.startTime = getCurrentTime(st.tl),
             !.duration = Fin(ThinkingBeat), !.handVisible = FALSE],
         nextAvailableSlot(st.tl, Fin(ThinkingBeat), FALSE, FALSE).tl)

\* the camera pan of explain_relation (part_008, 276-283)
cameraInSlot(st, slot) == emit(st, createCameraAction(slot.start), slot.tl)

cameraStep(st) ==
    cameraInSlot(st, nextAvailableSlot(st.tl, Fin(1200), TRUE, FALSE))

\* the arrow of explain_relation (part_008, 286-291)
arrowInSlot(st, from, to, slot) ==
    emit(st, createArrowStrokes(from, to, slot.start), slot.tl)

arrowStep(st, from, to) ==
    arrowInSlot(st, from, to, nextAvailableSlot(st.tl, Fin(1500), FALSE, FALSE))

\* emphasize (part_008, 303-311)
emphasisInSlot(st, method, slot) ==
    emit(st, createEmphasisAction(method, slot.start), slot.tl)

emphasisStep(st, method) ==
    emphasisInSlot(st, method,
                   nextAvailableSlot(st.tl, Fin(1000), FALSE, FALSE))

\* pause_for_thinking (part_008, 313-322)
pauseInSlot(st, duration, slot) ==
    emit(st,
         [BlankAction EXCEPT !.type = "pause", !.startTime = slot.start,
             !.duration = duration, !.handVisible = FALSE],
         slot.tl)

pauseStep(st, duration) ==
    pauseInSlot(st, duration, nextAvailableSlot(st.tl, duration, FALSE, FALSE))

\* a step taken only under a condition
imageStepIf(cond, st, position) == IF cond THEN imageStep(st, position) ELSE st
writeStepIf(cond, st, text, position, fontSize) ==
    IF cond THEN writeStep(st, text, position, fontSize) ELSE st
\* the camera pans whatever the distance between the anchors
cameraStepIf_Always(cond, st) == cameraStep(st)

cameraStepIf(cond, st) == IF cond THEN cameraStep(st) ELSE st

\* semanticToStrokes (part_008, 200-326): the actions and the timeline after
semanticToStrokes(semantic, tl) ==
    CASE semantic.kind = "introduce_concept" ->
           thinkingBeatStep(
               writeStepIf(~semantic.isExplicitVisual
                               /\ ~startsWith(semantic.concept, ImagePrefix),
                   imageStepIf(startsWith(semantic.concept, ImagePrefix),
                               [actions |-> << >>, tl |-> tl],
                               semantic.position),
                   semantic.concept, semantic.position, 48))
      [] semantic.kind = "explain_relation" ->
           writeStep(
               arrowStep(
                   cameraStepIf(
                       Abs(semantic.toPos[1] - semantic.fromPos[1])
                           > CameraThreshold,
                       writeStep([actions |-> << >>, tl |-> tl],
                                 semantic.from, semantic.fromPos, 36)),
                   semantic.fromPos, semantic.toPos),
               semantic.to, semantic.toPos, 36)
      [] semantic.kind = "emphasize" ->
           emphasisStep([actions |-> << >>, tl |-> tl], semantic.method)
      [] semantic.kind = "pause_for_thinking" ->
           pauseStep([actions |-> << >>, tl |-> tl], semantic.duration)
      [] OTHER -> [actions |-> << >>, tl |-> tl]

(***************************************************************************)
(* Slide content items and contentItemToSemantic (part_008, 510-572).      *)
(* The style coordinates of an item only move the anchor position and are  *)
(* left at their default.                                                  *)
(***************************************************************************)
BlankItem ==
    [type |-> "text", content |-> << >>, iconName |-> << >>, imageUrl |-> << >>]

ImageUrl == <<"u">>

contentItemToSemantic(contentItem) ==
    IF contentItem.type \in {"heading", "text", "bullet"}
    THEN LET text == IF contentItem.type = "bullet"
                     THEN <<"*", " ">> \o contentItem.content  \* the bullet sign, not a glyph
                     ELSE contentItem.content
             intro == [BlankSemantic EXCEPT !.kind = "introduce_concept",
                          !.concept = text]
         IN <<intro>> \o
            (IF contentItem.type = "heading"
             THEN <<[BlankSemantic EXCEPT !.kind = "pause_for_thinking",
                        !.duration = Fin(800)]>>
             ELSE << >>)
    ELSE IF contentItem.type = "icon"
    THEN <<[BlankSemantic EXCEPT !.kind = "introduce_concept",
               !.concept = IF contentItem.iconName # << >>
                           THEN contentItem.iconName
                           ELSE <<"i", "c", "o", "n">>,
               !.isExplicitVisual = TRUE]>>
    ELSE IF contentItem.type = "image" /\ contentItem.imageUrl # << >>
    THEN <<[BlankSemantic EXCEPT !.kind = "introduce_concept",
               !.concept = ImagePrefix \o <<" ">> \o contentItem.imageUrl
                               \o <<"]">>,
               !.isExplicitVisual = TRUE]>>
    ELSE << >>

\* scene.actions.push(...actions) (part_008, 165-166)
pushActions(st, r) == [actions |-> st.actions \o r.actions, tl |-> r.tl]

\* the loop over the semantic actions of a content item (part_008, 164-167)
RECURSIVE SemanticsToStrokes(_, _)
SemanticsToStrokes(semantics, st) ==
    IF semantics = << >> THEN st
    ELSE SemanticsToStrokes(Tail(semantics),
             pushActions(st, semanticToStrokes(Head(semantics), st.tl)))

\* the loop over the content items of a slide (part_008, 161-168)
RECURSIVE ItemsToStrokes(_, _)
ItemsToStrokes(items, st) ==
    IF items = << >> THEN st
    ELSE ItemsToStrokes(Tail(items),
             SemanticsToStrokes(contentItemToSemantic(Head(items)), st))

Digit == <<"1", "2", "3", "4", "5", "6", "7", "8", "9">>

DefaultSlideDuration == 5000
MinTotalDuration == 500
LoadingText == <<"L", "o", "a", "d", "i", "n", "g", ".", ".", ".">>

\* the text drawn for a slide without content items (part_008, 150)
defaultText(voiceScript, sceneCount) ==
    LET sub == SubSeq(voiceScript, 1, Min(50, Len(voiceScript)))
    IN IF sub # << >> THEN sub
       ELSE <<"C", "o", "n", "c", "e", "p", "t", " ">> \o <<Digit[sceneCount + 1]>>

\* a slide without content items gets no default concept
slideActions_NoDefault(s, tl, sceneCount) ==
    ItemsToStrokes(s.content, [actions |-> << >>, tl |-> tl])

\* the actions collected for a slide before the placeholder (part_008, 146-169)
slideActions(s, tl, sceneCount) ==
    IF Len(s.content) = 0
    THEN semanticToStrokes(
             [BlankSemantic EXCEPT !.kind = "introduce_concept",
                 !.concept = defaultText(s.voiceScript, sceneCount),
                 !.position = DefaultPos], tl)
    ELSE ItemsToStrokes(s.content, [actions |-> << >>, tl |-> tl])

\* no placeholder is added
ensureAction_Skip(r) == r

\* "Ensure we have at least one action" (part_008, 171-180)
ensureAction(r) ==
    IF Len(r.actions) = 0
    THEN writeStep(r, LoadingText, DefaultPos, 48)
    ELSE r

\* the total duration is taken from the first action instead of the last
totalDurationOf_First(actions, slideDuration) ==
    IF Len(actions) > 0
    THEN LET firstAction == actions[1]
             actionEndTime == NumAdd(firstAction.startTime,
                                     NumOr(firstAction.duration, Fin(0)))
             nominal == IF slideDuration = 0 THEN DefaultSlideDuration
                        ELSE slideDuration
             safeTotalDuration ==
                 IF isNaN(actionEndTime) \/ ~isFinite(actionEndTime) THEN nominal
                 ELSE Max(actionEndTime.v, nominal)
         IN Max(MinTotalDuration, safeTotalDuration)
    ELSE slideDuration

\* "Calculate total duration from actions" (part_008, 182-188)
totalDurationOf(actions, slideDuration) ==
    IF Len(actions) > 0
    THEN LET lastAction == actions[Len(actions)]
             actionEndTime == NumAdd(lastAction.startTime,
                                     NumOr(lastAction.duration, Fin(0)))
             nominal == IF slideDuration = 0 THEN DefaultSlideDuration
                        ELSE slideDuration
             safeTotalDuration ==
                 IF isNaN(actionEndTime) \/ ~isFinite(actionEndTime) THEN nominal
                 ELSE Max(actionEndTime.v, nominal)
         IN Max(MinTotalDuration, safeTotalDuration)
    ELSE slideDuration

\* the scene of a slide, from its actions (part_008, 138-144 and 182-188)
sceneOf(r, slideDuration) ==
    [scene |-> [actions |-> r.actions,
                totalDuration |-> totalDurationOf(r.actions, slideDuration)],
     tl |-> r.tl]

\* the timeline of the slide before is kept
convertSlide_NoReset(s, tl, sceneCount) ==
    sceneOf(ensureAction(slideActions(s, tl, sceneCount)), s.duration)

\* one iteration of the loop over the slides (part_008, 135-191)
convertSlide(s, tl, sceneCount) ==
    sceneOf(ensureAction(slideActions(s, reset(tl), sceneCount)), s.duration)

(***************************************************************************)
(* WhiteboardEngine (part_007): the evaluator.  A progress is a fraction   *)
(* n/d with d > 0, or NaN.  A sampled point is named by the path and the   *)
(* length fraction it was taken at; an angle by the points it is the       *)
(* direction of.                                                           *)
(***************************************************************************)
Frac(n, d) == [nan |-> FALSE, n |-> n, d |-> d]
FracNaN == [nan |-> TRUE, n |-> 0, d |-> 1]

\* a <= b on progress values; a comparison with NaN is false
FracLeq(a, b) == ~a.nan /\ ~b.nan /\ a.n * b.d <= b.n * a.d

Fps == 30

BlankPath == [glyph |-> "", idx |-> 0, x |-> 0, scale |-> 0, cmds |-> 0]

\* getTotalLength / getPointAtLength fail on a path they cannot measure
Measurable(path) == path.glyph # "broken"

\* the key leaves the duration out
cacheKey_NoDuration(pathString, duration, fps) == <<pathString, Fin(0), fps>>

\* the key `${pathString}_${duration}_${fps}` (part_007, 203)
cacheKey(pathString, duration, fps) == <<pathString, duration, fps>>

\* Math.ceil(duration * fps), for a finite duration in milliseconds
totalFramesOf(duration, fps) == CeilDiv(duration.v * fps, 1000)

\* the points sampled by the loop of calculatePathPoints (part_007, 232-248)
samplePoints(pathString, duration, fps) ==
    IF ~isFinite(duration) \/ totalFramesOf(duration, fps) < 0 THEN << >>
    ELSE LET totalFrames == totalFramesOf(duration, fps)
         IN [f \in 1..(totalFrames + 1) |->
                [path |-> pathString, frame |-> f - 1, of |-> totalFrames]]

\* the sampling throws: no document, a path that cannot be measured, or a
\* point asked at the length 0/0 (no frame at all)
samplingFails(pathString, duration, fps, dom) ==
    \/ ~dom
    \/ ~Measurable(pathString)
    \/ (isFinite(duration) /\ totalFramesOf(duration, fps) = 0)

\* the cache keeps the last sampled path only
calculatePathPoints_Replace(pathString, duration, fps, cache, dom) ==
    LET key == cacheKey(pathString, duration, fps)
    IN IF key \in DOMAIN cache THEN [points |-> cache[key], cache |-> cache]
       ELSE IF samplingFails(pathString, duration, fps, dom)
       THEN [points |-> << >>, cache |-> cache]
       ELSE LET points == samplePoints(pathString, duration, fps)
            IN [points |-> points, cache |-> (key :> points)]

\* calculatePathPoints (part_007, 202-265): the points and the cache after
calculatePathPoints(pathString, duration, fps, cache, dom) ==
    LET key == cacheKey(pathString, duration, fps)
    IN IF key \in DOMAIN cache THEN [points |-> cache[key], cache |-> cache]
       ELSE IF samplingFails(pathString, duration, fps, dom)
       THEN [points |-> << >>, cache |-> cache]
       ELSE LET points == samplePoints(pathString, duration, fps)
            IN [points |-> points, cache |-> (key :> points) @@ cache]

\* hand positions and angles
NoPosition ==
    [kind |-> "undefined", path |-> BlankPath, n |-> 0, d |-> 1, nan |-> FALSE,
     base |-> <<0, 0>>, to |-> <<0, 0>>]
NoAngle == [kind |-> "undefined", path |-> BlankPath, i |-> 0, j |-> 0, of |-> 0]
ZeroAngle == [NoAngle EXCEPT !.kind = "zero"]

\* the point at an index of a sampled list, with the tangent angle
pointAtIndex(pathPoints, pointIndex) ==
    [position |-> [NoPosition EXCEPT !.kind = "pathPoint",
                      !.path = pathPoints[pointIndex + 1].path,
                      !.n = pathPoints[pointIndex + 1].frame,
                      !.d = pathPoints[pointIndex + 1].of],
     angle |-> IF pointIndex > 0
               THEN [NoAngle EXCEPT !.kind = "tangent",
                        !.path = pathPoints[pointIndex + 1].path,
                        !.i = pointIndex - 1, !.j = pointIndex,
                        !.of = pathPoints[pointIndex + 1].of]
               ELSE IF Len(pathPoints) > 1
               THEN [NoAngle EXCEPT !.kind = "tangent",
                        !.path = pathPoints[pointIndex + 1].path,
                        !.i = 0, !.j = 1, !.of = pathPoints[pointIndex + 1].of]
               ELSE ZeroAngle]

\* the point of a sampled list that the hand is at, with the tangent angle
\* (part_007, 306-320 and 354-368); progress is a fraction in [0, 1]
pointAt(pathPoints, progress) ==
    pointAtIndex(pathPoints,
        Min(Len(pathPoints) - 1,
            (progress.n * (Len(pathPoints) - 1)) \div progress.d))

\* Math.min(1, Math.max(0, num / dur)), num the time since the action started
clampedProgress(num, dur) ==
    IF isNaN(dur) THEN FracNaN
    ELSE IF ~isFinite(dur) THEN Frac(0, 1)
    ELSE IF dur.v = 0
         THEN (IF num = 0 THEN FracNaN
               ELSE IF num > 0 THEN Frac(1, 1) ELSE Frac(0, 1))
    ELSE IF dur.v < 0
         THEN (IF num > 0 THEN Frac(0, 1) ELSE Frac(Min(-num, -dur.v), -dur.v))
    ELSE Frac(Min(dur.v, Max(0, num)), dur.v)

\* Math.min(1, Math.max(0, (currentTime - actionStartTime) / action.duration))
actionProgressOf(action, currentTime, actionStartTime) ==
    clampedProgress(currentTime - actionStartTime, action.duration)

\* stroke.duration || 0.1
strokeDur(stroke) == IF stroke.duration = 0 THEN 100 ELSE stroke.duration

\* a stroke is live up to its end, the end left out
strokeLive_HalfOpen(strokeStart, strokeEnd, totalDuration, progress) ==
    /\ ~progress.nan
    /\ totalDuration * progress.n >= strokeStart * progress.d
    /\ totalDuration * progress.n < strokeEnd * progress.d

\* currentDrawTime >= strokeStart && currentDrawTime <= strokeEnd, where
\* currentDrawTime = totalDuration * progress, compared exactly
strokeLive(strokeStart, strokeEnd, totalDuration, progress) ==
    /\ ~progress.nan
    /\ totalDuration * progress.n >= strokeStart * progress.d
    /\ totalDuration * progress.n <= strokeEnd * progress.d

\* (currentDrawTime - strokeStart) / (stroke.duration || 0.1)
strokeProgressOf(stroke, strokeStart, totalDuration, progress) ==
    Frac(totalDuration * progress.n - strokeStart * progress.d,
         progress.d * strokeDur(stroke))

\* the loop over the strokes of a write action (part_007, 294-330), from
\* stroke i on, strokeStart being the sum of the durations before it;
\* strokeDrawn is the body of the loop for the stroke being drawn, pp its
\* sampled points
RECURSIVE strokeLoop(_, _, _, _, _, _, _)
RECURSIVE strokeDrawn(_, _, _, _, _, _, _)
strokeDrawn(strokes, i, strokeStart, totalDuration, progress, pp, dom) ==
    IF Len(pp.points) > 0
    THEN [found |-> TRUE,
          hand |-> pointAt(pp.points,
                           strokeProgressOf(strokes[i], strokeStart,
                                            totalDuration, progress)).position,
          cache |-> pp.cache]
    ELSE strokeLoop(strokes, i + 1, strokeStart + strokeDur(strokes[i]),
                    totalDuration, progress, pp.cache, dom)

strokeLoop(strokes, i, strokeStart, totalDuration, progress, cache, dom) ==
    IF i > Len(strokes) THEN [found |-> FALSE, hand |-> NoPosition, cache |-> cache]
    ELSE IF strokeLive(strokeStart, strokeStart + strokeDur(strokes[i]),
                       totalDuration, progress)
    THEN strokeDrawn(strokes, i, strokeStart, totalDuration, progress,
             calculatePathPoints(strokes[i].path, Fin(strokeDur(strokes[i])),
                                 Fps, cache, dom),
             dom)
    ELSE strokeLoop(strokes, i + 1, strokeStart + strokeDur(strokes[i]),
                    totalDuration, progress, cache, dom)

NoHand == [isNull |-> TRUE, position |-> NoPosition, angle |-> NoAngle]
Hand(p, a) == [isNull |-> FALSE, position |-> p, angle |-> a]

\* t > e and t >= e, for an integer t and a JavaScript number e
GtNum(t, e) == isFinite(e) /\ t > e.v
GeqNum(t, e) == isFinite(e) /\ t >= e.v

\* a position that depends on the progress of the action
progressFields(p, actionProgress) ==
    IF actionProgress.nan THEN [p EXCEPT !.nan = TRUE]
    ELSE [p EXCEPT !.n = actionProgress.n, !.d = actionProgress.d]

\* the estimate from the characters shown (part_007, 332-343)
textFallback(action, actionProgress) ==
    IF actionProgress.nan
    THEN [NoPosition EXCEPT !.kind = "textFallback", !.nan = TRUE,
             !.d = IF action.fontSize = 0 THEN 48 ELSE action.fontSize,
             !.base = action.position[1]]
    ELSE [NoPosition EXCEPT !.kind = "textFallback",
             !.n = (Len(action.text) * actionProgress.n) \div actionProgress.d,
             !.d = IF action.fontSize = 0 THEN 48 ELSE action.fontSize,
             !.base = action.position[1]]

\* without a sampled stroke the hand rests at the position of the text
writeHand_Static(action, actionProgress, loop) ==
    [hand |-> Hand(IF loop.found THEN loop.hand
                   ELSE [NoPosition EXCEPT !.kind = "static",
                            !.base = action.position[1]], ZeroAngle),
     cache |-> loop.cache]

\* the hand of a write action, loop being the outcome of the stroke loop
\* (part_007, 284-344)
writeHand(action, actionProgress, loop) ==
    [hand |-> Hand(IF loop.found THEN loop.hand
                   ELSE textFallback(action, actionProgress), ZeroAngle),
     cache |-> loop.cache]

\* the segment of an arrow is not followed
shapeHand_NoSegment(action, actionProgress, cache) ==
    [hand |->
        IF action.type = "image" /\ action.position # << >>
        THEN Hand(progressFields(
                      [NoPosition EXCEPT !.kind = "imageWipe",
                          !.base = action.position[1]],
                      actionProgress),
                  [NoAngle EXCEPT !.kind = "quarterPi"])
        ELSE IF action.position # << >>
        THEN Hand([NoPosition EXCEPT !.kind = "static",
                      !.base = action.position[1]], ZeroAngle)
        ELSE NoHand,
     cache |-> cache]

\* the branches that follow the path (part_007, 371-418)
shapeHand(action, actionProgress, cache) ==
    [hand |->
        IF action.type = "arrow" /\ action.start # << >> /\ action.end # << >>
        THEN Hand(progressFields(
                      [NoPosition EXCEPT !.kind = "segment",
                          !.base = action.start[1], !.to = action.end[1]],
                      actionProgress),
                  [NoAngle EXCEPT !.kind = "segment"])
        ELSE IF action.type = "image" /\ action.position # << >>
        THEN Hand(progressFields(
                      [NoPosition EXCEPT !.kind = "imageWipe",
                          !.base = action.position[1]],
                      actionProgress),
                  [NoAngle EXCEPT !.kind = "quarterPi"])
        ELSE IF action.position # << >>
        THEN Hand([NoPosition EXCEPT !.kind = "static",
                      !.base = action.position[1]], ZeroAngle)
        ELSE NoHand,
     cache |-> cache]

handAt(sampled) == Hand(sampled.position, sampled.angle)

\* the hand of an action with a path, pp being its sampled points
\* (part_007, 347-375); with a NaN progress the point read is undefined, the
\* error is caught and the branches after the path are taken
pathHand(action, actionProgress, pp) ==
    IF Len(pp.points) > 0 /\ ~actionProgress.nan
    THEN [hand |-> handAt(pointAt(pp.points, actionProgress)),
          cache |-> pp.cache]
    ELSE shapeHand(action, actionProgress, pp.cache)

\* SUM of stroke.duration || 0.1 (part_007, 291)
strokesDuration(strokes) ==
    SumSeq([i \in 1..Len(strokes) |-> strokeDur(strokes[i])])

\* getHandPosition while the action is running (part_007, 281-418)
handDuring(action, actionProgress, cache, dom) ==
    IF action.type = "write" /\ action.text # << >> /\ action.position # << >>
    THEN writeHand(action, actionProgress,
             strokeLoop(action.strokes, 1, 0, strokesDuration(action.strokes),
                        actionProgress, cache, dom))
    ELSE IF action.path # << >>
    THEN pathHand(action, actionProgress,
             calculatePathPoints(action.path[1], action.duration, Fps, cache,
                                 dom))
    ELSE shapeHand(action, actionProgress, cache)

\* the hand is computed without the test that the action is active
getHandPosition_NoWindow(action, currentTime, sceneStartTime, cache, dom) ==
    handDuring(action,
        actionProgressOf(action, currentTime, sceneStartTime + action.startTime),
        cache, dom)

\* getHandPosition (part_007, 272-419): the hand and the cache after
getHandPosition(action, currentTime, sceneStartTime, cache, dom) ==
    IF \/ currentTime < sceneStartTime + action.startTime
       \/ GtNum(currentTime,
                NumAdd(sceneStartTime + action.startTime, action.duration))
    THEN [hand |-> NoHand, cache |-> cache]
    ELSE handDuring(action,
             actionProgressOf(action, currentTime,
                              sceneStartTime + action.startTime),
             cache, dom)

\* an action is complete only after its end, not at its end
progressOf_AfterEnd(action, currentTime, actionStartTime) ==
    IF currentTime < actionStartTime
    THEN [currentProgress |-> Frac(0, 1), isComplete |-> FALSE]
    ELSE IF GtNum(currentTime, NumAdd(actionStartTime, action.duration))
    THEN [currentProgress |-> Frac(1, 1), isComplete |-> TRUE]
    ELSE [currentProgress |->
             IF isNaN(action.duration) THEN FracNaN
             ELSE IF ~isFinite(action.duration) THEN Frac(0, 1)
             ELSE Frac(currentTime - actionStartTime, action.duration.v),
          isComplete |-> FALSE]

\* currentProgress and isComplete (part_007, 442-456)
progressOf(action, currentTime, actionStartTime) ==
    IF currentTime < actionStartTime
    THEN [currentProgress |-> Frac(0, 1), isComplete |-> FALSE]
    ELSE IF GeqNum(currentTime, NumAdd(actionStartTime, action.duration))
    THEN [currentProgress |-> Frac(1, 1), isComplete |-> TRUE]
    ELSE [currentProgress |->
             IF isNaN(action.duration) THEN FracNaN
             ELSE IF ~isFinite(action.duration) THEN Frac(0, 1)
             ELSE Frac(currentTime - actionStartTime, action.duration.v),
          isComplete |-> FALSE]

\* the path points of the action (part_007, 458-461)
pathPointsOf(action, cache, dom) ==
    IF action.path # << >>
    THEN calculatePathPoints(action.path[1], action.duration, Fps, cache, dom)
    ELSE [points |-> << >>, cache |-> cache]

\* the hand is computed whether the action shows it or not
handDataOf_Always(action, currentTime, sceneStartTime, cache, dom) ==
    getHandPosition(action, currentTime, sceneStartTime, cache, dom)

\* the hand of the action (part_007, 463-473)
handDataOf(action, currentTime, sceneStartTime, cache, dom) ==
    IF action.handVisible
    THEN getHandPosition(action, currentTime, sceneStartTime, cache, dom)
    ELSE [hand |-> NoHand, cache |-> cache]

\* the state returned (part_007, 475-482)
actionStateOf(p, pp, h) ==
    [state |-> [currentProgress |-> p.currentProgress,
                pathPoints |-> pp.points,
                isComplete |-> p.isComplete,
                handPosition |-> h.hand.position,
                handAngle |-> h.hand.angle],
     cache |-> h.cache]

actionStateWithPoints(action, currentTime, sceneStartTime, dom, pp) ==
    actionStateOf(
        progressOf(action, currentTime, sceneStartTime + action.startTime),
        pp,
        handDataOf(action, currentTime, sceneStartTime, pp.cache, dom))

\* getActionState (part_007, 434-482): the state and the cache after
getActionState(action, currentTime, sceneStartTime, cache, dom) ==
    actionStateWithPoints(action, currentTime, sceneStartTime, dom,
                          pathPointsOf(action, cache, dom))

\* the filter of getActiveActions (part_007, 494): the state is kept
keepState(st, currentTime, sceneEnd) ==
    \/ (~st.currentProgress.nan /\ st.currentProgress.n > 0 /\ ~st.isComplete)
    \/ (st.isComplete /\ currentTime < sceneEnd)

\* scene.actions.map(action => getActionState(...)) from action i on (part_007,
\* 492-493), r being the state of action i and the cache after it; each entry
\* keeps the cache its evaluation left
RECURSIVE mapStates(_, _, _, _, _, _)
RECURSIVE mapStatesFrom(_, _, _, _, _, _)
mapStatesFrom(actions, i, currentTime, sceneStartTime, dom, r) ==
    << [action |-> actions[i], state |-> r.state, cache |-> r.cache] >>
        \o mapStates(actions, i + 1, currentTime, sceneStartTime, r.cache, dom)

mapStates(actions, i, currentTime, sceneStartTime, cache, dom) ==
    IF i > Len(actions) THEN << >>
    ELSE mapStatesFrom(actions, i, currentTime, sceneStartTime, dom,
             getActionState(actions[i], currentTime, sceneStartTime, cache, dom))

\* the states that pass the filter, in the order of the list
RECURSIVE filterStates(_, _, _)
filterStates(states, currentTime, sceneEnd) ==
    IF states = << >> THEN << >>
    ELSE (IF keepState(Head(states).state, currentTime, sceneEnd)
          THEN <<Head(states)>> ELSE << >>)
            \o filterStates(Tail(states), currentTime, sceneEnd)

\* the states returned and the cache after the last evaluation
activeOf(states, currentTime, sceneEnd, cache) ==
    [active |-> filterStates(states, currentTime, sceneEnd),
     cache |-> IF states = << >> THEN cache ELSE states[Len(states)].cache]

\* getActiveActions (part_007, 487-495): the states returned and the cache after
getActiveActions(sc, currentTime, sceneStartTime, cache, dom) ==
    activeOf(mapStates(sc.actions, 1, currentTime, sceneStartTime, cache, dom),
             currentTime, sceneStartTime + sc.totalDuration, cache)

(***************************************************************************)
(* The compiler as a state machine: each step is one iteration of the loop *)
(* over the slides of a convertSlidesToWhiteboardScenes call.  The         *)
(* Timeline object and the number of scenes carry over to the next slide.  *)
(* The first slide of a call ranges over Slides, the following ones over   *)
(* LaterSlides.  The voice script is read only for a slide without content *)
(* items, and is left empty otherwise.  A text item ranges over all the    *)
(* InputTexts, a heading or a bullet over ShortTexts.                      *)
(***************************************************************************)
InputChars == {" ", "T"}

ImageLikeText == ImagePrefix \o <<" ">> \o ImageUrl \o <<"]">>

InputTexts ==
    UNION {[1..n -> InputChars] : n \in 0..MaxTextLen} \cup {ImageLikeText}

\* the texts of the headings and of the bullets
ShortTexts == {<< >>, <<"T">>}

ContentItems ==
    {[BlankItem EXCEPT !.type = "text", !.content = c] : c \in InputTexts}
    \cup {[BlankItem EXCEPT !.type = t, !.content = c] :
             t \in {"heading", "bullet"}, c \in ShortTexts}
    \cup {[BlankItem EXCEPT !.type = "icon", !.iconName = n] :
             n \in {<< >>, ImageLikeText}}
    \cup {[BlankItem EXCEPT !.type = "image", !.imageUrl = u] :
             u \in {<< >>, ImageUrl}}
    \cup {[BlankItem EXCEPT !.type = "code"]}

SlideDurations == {0, 1000, 8000}

Slides ==
    {[duration |-> d, content |-> c, voiceScript |-> << >>] :
        d \in SlideDurations,
        c \in UNION {[1..n -> ContentItems] : n \in 1..MaxItems}}
    \cup {[duration |-> d, content |-> << >>, voiceScript |-> v] :
             d \in SlideDurations, v \in InputTexts}

LaterSlides ==
    {[duration |-> 1000, content |-> << >>, voiceScript |-> v] :
        v \in {<< >>, <<"T">>}}
    \cup {[duration |-> 1000, content |-> <<i>>, voiceScript |-> << >>] :
             i \in {[BlankItem EXCEPT !.type = "text", !.content = <<"T">>],
                    [BlankItem EXCEPT !.type = "heading", !.content = <<"T">>],
                    [BlankItem EXCEPT !.type = "code"]}}

NoSlide == [duration |-> 0, content |-> << >>, voiceScript |-> << >>]
NoScene == [actions |-> << >>, totalDuration |-> 0]
NoEval == [valid |-> FALSE]
NoReservation == [n |-> 0]

Init ==
    /\ slide = NoSlide
    /\ scene = NoScene
    /\ timeline = NewTimeline
    /\ nScenes = 0
    /\ pathCache = << >>
    /\ domOk = TRUE
    /\ cur = NoEval
    /\ intents = << >>
    /\ reserved = NoReservation

\* the body of "for (const slide of slides)" (part_008, 135-191)
ConvertSlide(s) ==
    /\ nScenes < MaxSlides
    /\ \E r \in {convertSlide(s, timeline, nScenes)} :
          /\ scene' = r.scene
          /\ timeline' = r.tl
    /\ slide' = s
    /\ nScenes' = nScenes + 1
    /\ UNCHANGED <<pathCache, domOk, cur, intents, reserved>>

Next ==
    \E s \in (IF nScenes = 0 THEN Slides ELSE LaterSlides) : ConvertSlide(s)

Spec == Init /\ [][Next]_vars

(***************************************************************************)
(* The evaluator as a state machine: a renderer calls getActionState with  *)
(* an action, a time and a scene start time; the path cache persists       *)
(* between the calls.  The actions evaluated are actions the compiler      *)
(* builds and hand-made DrawingAction values with the durations a number   *)
(* can hold.                                                               *)
(***************************************************************************)
MaxTick == 6
TimeStep == 100

EvalTimes == {k * TimeStep : k \in 0..MaxTick}
SceneStarts == {0, TimeStep}

WriteT ==
    createStrokeSequenceAction(<<"T">>, DefaultPos, 48, NewTimeline, "medium").action
WriteSpace ==
    createStrokeSequenceAction(<<" ">>, DefaultPos, 48, NewTimeline, "medium").action
WriteEmpty ==
    createStrokeSequenceAction(<< >>, DefaultPos, 48, NewTimeline, "medium").action
PauseOf(d) ==
    semanticToStrokes([BlankSemantic EXCEPT !.kind = "pause_for_thinking",
                          !.duration = d], NewTimeline).actions[1]
Circle == createEmphasisAction("circle", 0)
Underline == createEmphasisAction("underline", TimeStep)
Highlight == createEmphasisAction("highlight", TimeStep)
Image == createImageAction(DefaultPos, 0)
Box(d) ==
    [BlankAction EXCEPT !.type = "box", !.startTime = TimeStep, !.duration = d,
        !.position = <<DefaultPos>>]

EvalActions ==
    {WriteT, WriteSpace, WriteEmpty, PauseOf(Fin(800)), PauseOf(NaN),
     Circle, Underline, Highlight, Image,
     [Circle EXCEPT !.type = "draw", !.duration = Fin(200)],
     [Circle EXCEPT !.duration = Fin(0)],
     [Circle EXCEPT !.duration = NaN],
     [Circle EXCEPT !.path = <<ShapePath("broken", 1)>>],
     [BlankAction EXCEPT !.type = "arrow", !.startTime = TimeStep,
         !.duration = Fin(400), !.start = <<<<0, 0>>>>, !.end = <<<<100, 0>>>>],
     Box(Fin(300)), Box(Fin(0)), Box(Fin(-200)), Box(NaN), Box(Inf),
     [Box(Fin(300)) EXCEPT !.handVisible = FALSE],
     [createArrowStrokes(<<0, 0>>, <<100, 0>>, 0) EXCEPT
         !.path = <<ShapePath("broken", 1)>>],
     [createArrowStrokes(<<0, 0>>, <<100, 0>>, 0) EXCEPT !.type = "arrow",
         !.path = <<ShapePath("broken", 1)>>],
     [Image EXCEPT !.path = <<ShapePath("broken", 1)>>]}

InitEval ==
    /\ slide = NoSlide
    /\ scene = NoScene
    /\ timeline = NewTimeline
    /\ nScenes = 0
    /\ pathCache = << >>
    /\ domOk \in BOOLEAN
    /\ cur = NoEval
    /\ intents = << >>
    /\ reserved = NoReservation

\* a call of WhiteboardEngine.getActionState (part_007, 434-482)
Evaluate(action, currentTime, sceneStartTime) ==
    /\ \E r \in {getActionState(action, currentTime, sceneStartTime, pathCache, domOk)} :
          /\ cur' = [valid |-> TRUE, action |-> action, t |-> currentTime,
                     s |-> sceneStartTime, state |-> r.state]
          /\ pathCache' = r.cache
    /\ UNCHANGED <<slide, scene, timeline, nScenes, domOk, intents, reserved>>

NextEval ==
    \E a \in EvalActions, t \in EvalTimes, s \in SceneStarts : Evaluate(a, t, s)

SpecEval == InitEval /\ [][NextEval]_vars

(***************************************************************************)
(* The Timeline as a state machine: a sequence of nextAvailableSlot calls  *)
(* on one Timeline object, with the durations a number can hold, and       *)
(* reset.  reserved keeps the arguments of the last call, the start it     *)
(* returned and the timeline it was made on.                               *)
(***************************************************************************)
MaxCalls == 3

SlotDurations == {Fin(1000), Fin(1200), Fin(50), Fin(0), Fin(-200), NaN, Inf}

InitTimeline ==
    /\ slide = NoSlide
    /\ scene = NoScene
    /\ timeline = NewTimeline
    /\ nScenes = 0
    /\ pathCache = << >>
    /\ domOk = TRUE
    /\ cur = NoEval
    /\ intents = << >>
    /\ reserved = NoReservation

\* a call of timeline.nextAvailableSlot (part_008, 31-58)
Reserve(duration, needsCamera, narrationPause) ==
    /\ reserved.n < MaxCalls
    /\ \E r \in {nextAvailableSlot(timeline, duration, needsCamera, narrationPause)} :
          /\ timeline' = r.tl
          /\ reserved' = [n |-> reserved.n + 1, duration |-> duration,
                          needsCamera |-> needsCamera,
                          narrationPause |-> narrationPause,
                          start |-> r.start, before |-> timeline]
    /\ UNCHANGED <<slide, scene, nScenes, pathCache, domOk, cur, intents>>

\* a call of timeline.reset (part_008, 60-63)
ResetTimeline ==
    /\ reserved.n > 0
    /\ timeline' = reset(timeline)
    /\ reserved' = NoReservation
    /\ UNCHANGED <<slide, scene, nScenes, pathCache, domOk, cur, intents>>

NextTimeline ==
    \/ \E d \in SlotDurations, c \in BOOLEAN, p \in BOOLEAN : Reserve(d, c, p)
    \/ ResetTimeline

SpecTimeline == InitTimeline /\ [][NextTimeline]_vars

(***************************************************************************)
(* semanticToStrokes as a state machine: the semantic actions of a scene   *)
(* are compiled one after the other on one timeline, as the loop of        *)
(* part_008, 164-167 does, and their actions are pushed to the scene.  The *)
(* first semantic action ranges over Semantics, the following ones over    *)
(* LaterSemantics.  "#" is a character the glyph table does not hold.      *)
(***************************************************************************)
MaxIntents == 2

ConceptChars == {"T", "#", " "}

ConceptTexts == UNION {[1..n -> ConceptChars] : n \in 0..MaxTextLen}

\* anchors of explain_relation: the default ones are 920 apart; 900 and 100
\* are 400 from the default fromPos, 99 is 401 from it
ToAnchors == {<<1420, 400>>, <<900, 400>>, <<100, 400>>, <<99, 400>>}

Semantics ==
    {[BlankSemantic EXCEPT !.kind = "introduce_concept", !.concept = c] :
        c \in ConceptTexts \cup {ImageLikeText}}
    \cup {[BlankSemantic EXCEPT !.kind = "introduce_concept",
              !.concept = <<"T">>, !.isExplicitVisual = TRUE]}
    \cup {[BlankSemantic EXCEPT !.kind = "explain_relation", !.from = <<"T">>,
              !.to = t, !.toPos = p] :
             t \in {<<"T">>, <<"#">>}, p \in ToAnchors}
    \cup {[BlankSemantic EXCEPT !.kind = "emphasize", !.method = m] :
             m \in {"circle", "underline", "highlight"}}
    \cup {[BlankSemantic EXCEPT !.kind = "pause_for_thinking", !.duration = d] :
             d \in {Fin(800), Fin(0)}}

LaterSemantics ==
    {[BlankSemantic EXCEPT !.kind = "introduce_concept", !.concept = <<"T">>],
     [BlankSemantic EXCEPT !.kind = "explain_relation", !.from = <<"T">>,
         !.to = <<"T">>],
     [BlankSemantic EXCEPT !.kind = "explain_relation", !.from = <<"T">>,
         !.to = <<"T">>, !.toPos = <<900, 400>>],
     [BlankSemantic EXCEPT !.kind = "emphasize", !.method = "circle"],
     [BlankSemantic EXCEPT !.kind = "pause_for_thinking", !.duration = Fin(800)]}

InitSemantic ==
    /\ slide = NoSlide
    /\ scene = NoScene
    /\ timeline = NewTimeline
    /\ nScenes = 0
    /\ pathCache = << >>
    /\ domOk = TRUE
    /\ cur = NoEval
    /\ intents = << >>
    /\ reserved = NoReservation

\* one iteration of "for (const semantic of semanticActions)" (part_008, 164-167)
CompileSemantic(semantic) ==
    /\ Len(intents) < MaxIntents
    /\ \E r \in {semanticToStrokes(semantic, timeline)} :
          /\ scene' = [scene EXCEPT !.actions = scene.actions \o r.actions]
          /\ timeline' = r.tl
    /\ intents' = Append(intents, semantic)
    /\ UNCHANGED <<slide, nScenes, pathCache, domOk, cur, reserved>>

NextSemantic ==
    \E semantic \in (IF intents = << >> THEN Semantics ELSE LaterSemantics) :
        CompileSemantic(semantic)

SpecSemantic == InitSemantic /\ [][NextSemantic]_vars

(***************************************************************************)
(* TextStrokeCompiler.compile as a state machine: each step compiles one   *)
(* text at one speed and at two font sizes, and cur keeps the arguments    *)
(* and the two stroke lists.  "G" has the longest path of the glyph table. *)
(***************************************************************************)
InitCompile ==
    /\ slide = NoSlide
    /\ scene = NoScene
    /\ timeline = NewTimeline
    /\ nScenes = 0
    /\ pathCache = << >>
    /\ domOk = TRUE
    /\ cur = [compiled |-> FALSE]
    /\ intents = << >>
    /\ reserved = NoReservation

\* two calls of TextStrokeCompiler.compile (part_008, 78-110)
CompileText(text, fontSize, otherSize, speed) ==
    /\ cur' = [compiled |-> TRUE, text |-> text, fontSize |-> fontSize,
               otherSize |-> otherSize, speed |-> speed,
               strokes |-> compile(text, fontSize, speed),
               otherStrokes |-> compile(text, otherSize, speed)]
    /\ UNCHANGED <<slide, scene, timeline, nScenes, pathCache, domOk, intents, reserved>>

NextCompile ==
    \E text \in UNION {[1..n -> {"T", "G", "#", " "}] : n \in 0..MaxTextLen},
       fontSize \in {30, 48}, otherSize \in {36, 48},
       speed \in {"slow", "medium", "fast"} :
        CompileText(text, fontSize, otherSize, speed)

SpecCompile == InitCompile /\ [][NextCompile]_vars

(***************************************************************************)
(* getActiveActions as a state machine: a renderer asks for the active     *)
(* actions of a scene at a time.  The scenes are two compiled scenes (a    *)
(* heading, an image) and two hand-made ones: one that ends before its     *)
(* actions do, one with durations of NaN and 0.  cur keeps the arguments   *)
(* and the list returned.                                                  *)
(***************************************************************************)
ActiveScenes ==
    {convertSlide([duration |-> 1000, voiceScript |-> << >>,
                   content |-> <<[BlankItem EXCEPT !.type = "heading",
                                     !.content = <<"T">>]>>],
                  NewTimeline, 0).scene,
     convertSlide([duration |-> 1000, voiceScript |-> << >>,
                   content |-> <<[BlankItem EXCEPT !.type = "image",
                                     !.imageUrl = ImageUrl]>>],
                  NewTimeline, 0).scene,
     [actions |-> <<Circle, Box(Fin(300))>>, totalDuration |-> 400],
     [actions |-> <<Box(NaN), [Box(Fin(0)) EXCEPT !.startTime = 2 * TimeStep]>>,
      totalDuration |-> 500]}

InitActive ==
    /\ slide = NoSlide
    /\ scene = NoScene
    /\ timeline = NewTimeline
    /\ nScenes = 0
    /\ pathCache = << >>
    /\ domOk \in BOOLEAN
    /\ cur = [listed |-> FALSE]
    /\ intents = << >>
    /\ reserved = NoReservation

\* a call of WhiteboardEngine.getActiveActions (part_007, 487-495)
ListActive(sc, currentTime, sceneStartTime) ==
    /\ \E r \in {getActiveActions(sc, currentTime, sceneStartTime, pathCache, domOk)} :
          /\ cur' = [listed |-> TRUE, scene |-> sc, t |-> currentTime,
                     s |-> sceneStartTime, active |-> r.active]
          /\ pathCache' = r.cache
    /\ UNCHANGED <<slide, scene, timeline, nScenes, domOk, intents, reserved>>

NextActive ==
    \E sc \in ActiveScenes, t \in {k * TimeStep : k \in 0..(4 * MaxTick)},
       s \in SceneStarts :
        ListActive(sc, t, s)

SpecActive == InitActive /\ [][NextActive]_vars

(***************************************************************************)
(* Properties of compiled scenes.                                          *)
(***************************************************************************)
Compiled == nScenes > 0

Actions == scene.actions

\* t < e, for an integer t and a JavaScript number e
LtNum(t, e) == IF isFinite(e) THEN t < e.v ELSE e.k = "inf"

EndTime(a) == NumAdd(a.startTime, a.duration)

\* [startTime, startTime + duration) of a and of b have a point in common
Overlap(a, b) ==
    /\ LtNum(Max(a.startTime, b.startTime), EndTime(a))
    /\ LtNum(Max(a.startTime, b.startTime), EndTime(b))

IsCameraMove(a) == a.cameraMove

strokeSum(a) == SumSeq([i \in 1..Len(a.strokes) |-> a.strokes[i].duration])

\* the greatest end time of a non-empty list of actions of finite duration
RECURSIVE MaxEnd(_)
MaxEnd(acts) ==
    IF Len(acts) = 1 THEN EndTime(acts[1]).v
    ELSE Max(EndTime(acts[1]).v, MaxEnd(Tail(acts)))

\* no content item of the slide yields a semantic action
NoIntents(s) ==
    \A i \in 1..Len(s.content) : contentItemToSemantic(s.content[i]) = << >>

\* the slide is compiled from one introduce_concept whose payload is text
SingleTextIntent(s) ==
    \/ /\ Len(s.content) = 1
       /\ s.content[1].type \in {"text", "bullet"}
       /\ ~startsWith(s.content[1].content, ImagePrefix)
    \/ /\ Len(s.content) = 0
       /\ ~startsWith(s.voiceScript, ImagePrefix)

\* C1: in a compiled scene, the intervals [startTime, startTime + duration)
\* of two distinct actions, neither a camera move, are disjoint.
C1_NonOverlap ==
    \A i, j \in 1..Len(Actions) :
        (i # j /\ ~IsCameraMove(Actions[i]) /\ ~IsCameraMove(Actions[j]))
            => ~Overlap(Actions[i], Actions[j])

C1_Witness ==
    /\ Compiled
    /\ Len(Actions) >= 4
    /\ \E i \in 1..Len(Actions) :
          Actions[i].type = "write" /\ Actions[i].duration.v >= 200
    /\ \E i \in 1..Len(Actions) : Actions[i].type = "image"

\* C2: every action of a compiled scene has startTime >= 0 and a finite
\* duration > 0 (a zero or NaN duration is never stored).
C2_PositiveDuration ==
    \A i \in 1..Len(Actions) :
        /\ Actions[i].startTime >= 0
        /\ isFinite(Actions[i].duration)
        /\ Actions[i].duration.v > 0

\* C5: for every write action of a compiled scene, the durations of the
\* strokes stored in the action add up to the action's duration.
C5_DurationConservation ==
    \A i \in 1..Len(Actions) :
        Actions[i].type = "write"
            => Actions[i].duration = Fin(strokeSum(Actions[i]))

C5_Witness ==
    /\ Compiled
    /\ \E i \in 1..Len(Actions) :
          /\ Actions[i].type = "write"
          /\ Len(Actions[i].strokes) >= 3
          /\ Actions[i].duration.v >= 300
    /\ \E i \in 1..Len(Actions) :
          Actions[i].type = "write" /\ Len(Actions[i].strokes) = 0

\* C7 as stated: a slide without content items, or whose content items
\* yield no semantic action, compiles to exactly one action and a positive
\* total duration.
C7_Original ==
    (Compiled /\ NoIntents(slide))
        => (Len(Actions) = 1 /\ scene.totalDuration > 0)

\* C7 amended: a slide whose content items (at least one) yield no semantic
\* action compiles to exactly one action; a slide without content items
\* compiles to exactly two, a write action and a pause or an image action
\* and a pause; the total duration is positive in both cases.
C7_PlaceholderSafety ==
    /\ (Compiled /\ Len(slide.content) > 0 /\ NoIntents(slide))
          => (Len(Actions) = 1 /\ scene.totalDuration > 0)
    /\ (Compiled /\ Len(slide.content) = 0)
          => /\ Len(Actions) = 2
             /\ Actions[1].type \in {"write", "image"}
             /\ Actions[2].type = "pause"
             /\ scene.totalDuration > 0

C7_Witness ==
    /\ Compiled
    /\ Len(slide.content) = MaxItems
    /\ NoIntents(slide)
    /\ Len(Actions) = 1

\* C8: a compiled scene has at least one action, and when the semantic
\* actions of the slide produced no action the scene holds exactly one
\* action, a write action.
C8_NeverEmpty ==
    Compiled =>
        /\ Len(Actions) >= 1
        /\ (slideActions(slide, NewTimeline, nScenes - 1).actions = << >>)
              => (Len(Actions) = 1 /\ Actions[1].type = "write")

C8_Witness ==
    /\ Compiled
    /\ Len(slide.content) > 0
    /\ Len(Actions) = 1
    /\ Actions[1].type = "write"
    /\ Actions[1].text = LoadingText

\* C9 as stated: the total duration is the greatest end time of the
\* actions, floored at the slide's nominal duration.
C9_Original ==
    Compiled => scene.totalDuration = Max(MaxEnd(Actions), slide.duration)

\* C9 amended: the total duration is the greatest end time of the actions,
\* floored at the slide's nominal duration, where a nominal duration of 0
\* counts as 5 seconds; it is at least the end time of every action.
C9_TotalDuration ==
    Compiled =>
        /\ scene.totalDuration =
              Max(MaxEnd(Actions),
                  IF slide.duration = 0 THEN 5000 ELSE slide.duration)
        /\ \A i \in 1..Len(Actions) :
              scene.totalDuration >= EndTime(Actions[i]).v

C9_Witness ==
    /\ Compiled
    /\ Len(Actions) >= 3
    /\ slide.duration > 0
    /\ scene.totalDuration = MaxEnd(Actions)
    /\ scene.totalDuration > slide.duration

\* C10: a slide compiled from a single textual introduce_concept holds
\* exactly a write action followed by a pause of 0.5 s that starts no
\* earlier than the write ends, and the total duration is at least both
\* durations plus the 0.3 s narration pause and the 0.1 s gap between them.
C10_ScenarioA ==
    (Compiled /\ SingleTextIntent(slide)) =>
        /\ Len(Actions) = 2
        /\ Actions[1].type = "write"
        /\ Actions[2].type = "pause"
        /\ Actions[2].duration = Fin(500)
        /\ Actions[2].startTime >= EndTime(Actions[1]).v
        /\ scene.totalDuration >=
              Actions[1].duration.v + Actions[2].duration.v + 300 + 100

C10_Witness ==
    /\ Compiled
    /\ Len(slide.content) = 1
    /\ slide.content[1].type = "text"
    /\ slide.content[1].content = <<"T", "T">>
    /\ Actions[1].duration = Fin(400)
    /\ scene.totalDuration = 1300


(***************************************************************************)
(* Properties of the evaluator.                                            *)
(***************************************************************************)
Observable(st) ==
    <<st.currentProgress, st.isComplete, st.handPosition, st.handAngle>>

\* C3: for an action and times t1 < t2, the progress at t1 is at most the
\* progress at t2.
C3_MonotonicProgress ==
    [][(cur.valid /\ cur'.valid /\ cur'.action = cur.action /\ cur'.s = cur.s
           /\ cur.t < cur'.t)
          => FracLeq(cur.state.currentProgress, cur'.state.currentProgress)]_vars

\* C4: for every action and time, the progress is a number in [0, 1], never
\* NaN, and a complete action has progress 1.
C4_BoundedProgress ==
    cur.valid =>
        /\ ~cur.state.currentProgress.nan
        /\ 0 <= cur.state.currentProgress.n
        /\ cur.state.currentProgress.n <= cur.state.currentProgress.d
        /\ cur.state.isComplete
              => cur.state.currentProgress.n = cur.state.currentProgress.d

\* C6: the progress, completion, hand position and hand angle returned for
\* (action, time, scene start) are those of an evaluation on an empty path
\* cache, whatever evaluations were made before.
C6_PureEvaluation ==
    cur.valid =>
        Observable(cur.state) =
            Observable(getActionState(cur.action, cur.t, cur.s, << >>, domOk).state)

C6_Witness ==
    /\ cur.valid
    /\ cur.action.type = "draw"
    /\ cur.state.handPosition.kind = "pathPoint"
    /\ cur.state.handPosition.n > 0
    /\ cacheKey(Circle.path[1], Circle.duration, Fps) \in DOMAIN pathCache
    /\ cacheKey(WriteT.strokes[2].path, Fin(100), Fps) \in DOMAIN pathCache

\* the start of the evaluated action on the clock of the caller
StartOf(c) == c.s + c.action.startTime

\* the progress p is the number n/d, d being positive
ProgressIs(p, n, d) == ~p.nan /\ p.n * d = n * p.d

\* the state returned is the one of the phase the time is in
PhaseOutput ==
    cur.valid =>
        /\ (cur.t < StartOf(cur))
              => (ProgressIs(cur.state.currentProgress, 0, 1)
                     /\ ~cur.state.isComplete)
        /\ cur.state.isComplete
              <=> (cur.t >= StartOf(cur)
                     /\ GeqNum(cur.t, NumAdd(StartOf(cur), cur.action.duration)))
        /\ cur.state.isComplete => ProgressIs(cur.state.currentProgress, 1, 1)
        /\ (cur.t >= StartOf(cur) /\ ~cur.state.isComplete)
              => CASE cur.action.duration.k = "nan" ->
                        cur.state.currentProgress.nan
                   [] cur.action.duration.k = "inf" ->
                        ProgressIs(cur.state.currentProgress, 0, 1)
                   [] OTHER ->
                        /\ cur.action.duration.v > 0
                        /\ ProgressIs(cur.state.currentProgress,
                                      cur.t - StartOf(cur), cur.action.duration.v)

\* Complete iff t >= startTime + duration, whatever the start
CompleteAtEnd ==
    cur.valid =>
        (cur.state.isComplete
            <=> GeqNum(cur.t, NumAdd(StartOf(cur), cur.action.duration)))

\* Pending, Active, Complete as 0, 1, 2
PhaseRank(c) ==
    IF c.t < StartOf(c) THEN 0 ELSE IF c.state.isComplete THEN 2 ELSE 1

PhaseForward ==
    (cur.valid /\ cur'.valid /\ cur'.action = cur.action /\ cur'.s = cur.s
        /\ cur.t < cur'.t)
       => PhaseRank(cur) <= PhaseRank(cur')

\* C14 as claimed: Pending iff t < startTime, Complete iff
\* t >= startTime + duration, otherwise Active, and never backward.
C14_Original == [](PhaseOutput /\ CompleteAtEnd) /\ [][PhaseForward]_vars

\* C14: the phase of an action is a function of the elapsed time: Pending
\* with progress 0 iff t < startTime; Complete with progress 1 iff t is not
\* before startTime and t >= startTime + duration; otherwise Active with
\* progress (t - startTime) / duration; and from a time to a later one the
\* phase never moves backward.
C14_Phases == [](PhaseOutput) /\ [][PhaseForward]_vars

C14_Witness ==
    /\ cur.valid
    /\ cur.action = Box(Fin(300))
    /\ cur.t - StartOf(cur) = 100
    /\ ~cur.state.isComplete
    /\ ProgressIs(cur.state.currentProgress, 1, 3)

\* no hand is returned
HandUndefined(st) == st.handPosition = NoPosition /\ st.handAngle = NoAngle

Shown(action) == [action EXCEPT !.handVisible = TRUE]

\* C16: for an action with handVisible false, getActionState returns no hand
\* position and no hand angle at any time, and the progress and isComplete
\* it returns are those of the same action with its hand shown.
C16_HandSuppressed ==
    (cur.valid /\ ~cur.action.handVisible) =>
        /\ HandUndefined(cur.state)
        /\ cur.state.currentProgress =
              getActionState(Shown(cur.action), cur.t, cur.s, << >>, domOk)
                  .state.currentProgress
        /\ cur.state.isComplete =
              getActionState(Shown(cur.action), cur.t, cur.s, << >>, domOk)
                  .state.isComplete

C16_Witness ==
    /\ cur.valid
    /\ cur.action = [Box(Fin(300)) EXCEPT !.handVisible = FALSE]
    /\ cur.t - StartOf(cur) = 200
    /\ ProgressIs(cur.state.currentProgress, 2, 3)
    /\ HandUndefined(cur.state)
    /\ ~HandUndefined(getActionState(Shown(cur.action), cur.t, cur.s, << >>, domOk).state)

\* the coordinates of a point of a segment parallel to an axis, where the
\* cosine and the sine of its angle are -1, 0 or 1
SegmentPoint(pos) ==
    <<pos.base[1] + (pos.n * (pos.to[1] - pos.base[1])) \div pos.d,
      pos.base[2] + (pos.n * (pos.to[2] - pos.base[2])) \div pos.d>>

\* C17: for an arrow action with a start and an end and no path, evaluated
\* from its start to its end, the hand is on the segment from start to end at
\* the fraction given by the progress, and the hand angle is the angle of
\* the segment; from (0,0) to (100,0) at progress 1/2 the hand is at (50,0).
C17_ArrowInterpolation ==
    (/\ cur.valid
     /\ cur.action.type = "arrow" /\ cur.action.path = << >>
     /\ cur.action.start # << >> /\ cur.action.end # << >>
     /\ cur.action.handVisible
     /\ cur.t >= StartOf(cur)
     /\ ~GtNum(cur.t, NumAdd(StartOf(cur), cur.action.duration)))
    => /\ cur.state.handPosition.kind = "segment"
       /\ cur.state.handPosition.base = cur.action.start[1]
       /\ cur.state.handPosition.to = cur.action.end[1]
       /\ cur.state.handAngle.kind = "segment"
       /\ ~cur.state.currentProgress.nan =>
             /\ ProgressIs(cur.state.currentProgress,
                           cur.state.handPosition.n, cur.state.handPosition.d)
             /\ (cur.action.start[1] = <<0, 0>> /\ cur.action.end[1] = <<100, 0>>
                    /\ ProgressIs(cur.state.currentProgress, 1, 2))
                   => SegmentPoint(cur.state.handPosition) = <<50, 0>>

C17_Witness ==
    /\ cur.valid
    /\ cur.action.type = "arrow"
    /\ cur.action.start = << <<0, 0>> >> /\ cur.action.end = << <<100, 0>> >>
    /\ cur.t - StartOf(cur) = 200
    /\ ProgressIs(cur.state.currentProgress, 1, 2)
    /\ SegmentPoint(cur.state.handPosition) = <<50, 0>>

\* the action is evaluated with its hand shown, from its start to its end
InWindow(c) ==
    /\ c.valid
    /\ c.action.handVisible
    /\ c.t >= StartOf(c)
    /\ ~GtNum(c.t, NumAdd(StartOf(c), c.action.duration))

\* a write action whose strokes cannot be sampled: there is no document
UnsampledWrite(c) ==
    /\ InWindow(c)
    /\ c.action.type = "write" /\ c.action.text # << >>
    /\ c.action.position # << >> /\ c.action.strokes # << >>
    /\ ~domOk

\* an action with a path that is not written text, whose sampling gave no point
UnsampledPath(c) ==
    /\ InWindow(c)
    /\ ~(c.action.type = "write" /\ c.action.text # << >>
            /\ c.action.position # << >>)
    /\ c.action.path # << >>
    /\ c.state.pathPoints = << >>

\* the hand is at the static position of the action, with angle 0
AtStaticPosition(c) ==
    /\ c.state.handPosition.kind = "static"
    /\ c.state.handPosition.base = c.action.position[1]
    /\ c.state.handAngle = ZeroAngle

\* C19 as claimed: when the sampling gives no point, the hand is at the
\* static position of the action with angle 0, for a write action as for an
\* action with a path.
C19_Original ==
    ((UnsampledWrite(cur) \/ UnsampledPath(cur)) /\ cur.action.position # << >>)
        => AtStaticPosition(cur)

\* C19: when the sampling gives no point the evaluation still returns a
\* state; for a write action the hand is at the estimate from the characters
\* shown, with angle 0; for an action with a path the rules after the path
\* apply: the segment of an arrow with start and end, the diagonal of an
\* image, else the static position with angle 0, and no hand without a
\* position.
C19_EmptySampling ==
    /\ UnsampledWrite(cur) =>
          /\ cur.state.handPosition.kind = "textFallback"
          /\ cur.state.handPosition.base = cur.action.position[1]
          /\ cur.state.handAngle = ZeroAngle
    /\ UnsampledPath(cur) =>
          IF cur.action.type = "arrow" /\ cur.action.start # << >>
                /\ cur.action.end # << >>
          THEN cur.state.handPosition.kind = "segment"
          ELSE IF cur.action.type = "image" /\ cur.action.position # << >>
          THEN cur.state.handPosition.kind = "imageWipe"
          ELSE IF cur.action.position # << >>
          THEN AtStaticPosition(cur)
          ELSE HandUndefined(cur.state)

C19_Witness ==
    /\ UnsampledWrite(cur)
    /\ cur.action = WriteT
    /\ cur.t - StartOf(cur) = 100
    /\ cur.state.handPosition.kind = "textFallback"
    /\ cur.state.handPosition.n = 0

\* the sum of the durations of the strokes before stroke i
StrokeStart(strokes, i) ==
    SumSeq([j \in 1..(i - 1) |-> strokeDur(strokes[j])])

StrokeEnd(strokes, i) == StrokeStart(strokes, i) + strokeDur(strokes[i])

\* a write action that lasts as long as its strokes, evaluated with its hand
\* shown while the strokes can be sampled
SampledWrite(c) ==
    /\ InWindow(c)
    /\ c.action.type = "write" /\ c.action.text # << >>
    /\ c.action.position # << >> /\ c.action.strokes # << >>
    /\ c.action.duration = Fin(strokesDuration(c.action.strokes))
    /\ domOk

\* the time since the start of the action
Elapsed(c) == c.t - StartOf(c)

\* the hand is on stroke i of the action, with angle 0
OnStroke(c, i) ==
    /\ c.state.handPosition.kind = "pathPoint"
    /\ c.state.handPosition.path = c.action.strokes[i].path
    /\ c.state.handAngle = ZeroAngle

\* C23 as claimed: the stroke sampled for the hand of a write action at the
\* time e since its start is the stroke i with (sum of the durations before
\* i) <= e < (that sum + the duration of i), also when e is the boundary of
\* two strokes; the angle is 0.
C23_Original ==
    SampledWrite(cur) =>
        \A i \in 1..Len(cur.action.strokes) :
            (/\ StrokeStart(cur.action.strokes, i) <= Elapsed(cur)
             /\ Elapsed(cur) < StrokeEnd(cur.action.strokes, i))
                => OnStroke(cur, i)

\* C23: the stroke sampled for the hand of a write action at the time e
\* since its start is the first stroke i with (sum of the durations before
\* i) <= e <= (that sum + the duration of i): on the boundary of two strokes
\* it is the earlier one, at its end; the angle is 0.
C23_LiveStroke ==
    SampledWrite(cur) =>
        \A i \in 1..Len(cur.action.strokes) :
            (/\ StrokeStart(cur.action.strokes, i) <= Elapsed(cur)
             /\ Elapsed(cur) <= StrokeEnd(cur.action.strokes, i)
             /\ \A j \in 1..(i - 1) :
                   Elapsed(cur) > StrokeEnd(cur.action.strokes, j))
                => /\ OnStroke(cur, i)
                   /\ (Elapsed(cur) = StrokeEnd(cur.action.strokes, i))
                         => cur.state.handPosition.n = cur.state.handPosition.d

C23_Witness ==
    /\ SampledWrite(cur)
    /\ Len(cur.action.strokes) = 2
    /\ Elapsed(cur) = StrokeEnd(cur.action.strokes, 1)
    /\ OnStroke(cur, 1)
    /\ cur.state.handPosition.n = 3

\* the sampling of the path of the action evaluated next throws
FailedSampling(c) ==
    /\ c.action.path # << >>
    /\ \/ ~domOk
       \/ ~Measurable(c.action.path[1])
       \/ c.action.duration = Fin(0)

\* C26: an entry of the path-point cache is never changed nor removed by a
\* later evaluation, and a sampling that fails stores nothing.
C26_AppendOnlyCache ==
    [][/\ \A key \in DOMAIN pathCache :
             key \in DOMAIN pathCache' /\ pathCache'[key] = pathCache[key]
       /\ FailedSampling(cur') =>
             cacheKey(cur'.action.path[1], cur'.action.duration, Fps)
                 \notin DOMAIN pathCache'
       /\ ~domOk => pathCache' = pathCache]_vars

C26_Witness ==
    /\ cur.valid
    /\ FailedSampling(cur) /\ domOk
    /\ cur.state.pathPoints = << >>
    /\ Cardinality(DOMAIN pathCache) >= 3
    /\ cacheKey(Circle.path[1], Circle.duration, Fps) \in DOMAIN pathCache

(***************************************************************************)
(* Properties of the Timeline.                                             *)
(***************************************************************************)
\* the duration a slot is reserved for: 0.5 s for NaN or an infinity, else
\* the duration, and at least 0.1 s
SafeOf(d) == IF d.k # "fin" THEN 500 ELSE IF d.v < 100 THEN 100 ELSE d.v

\* C11: in a sequence of nextAvailableSlot calls on a timeline, the start
\* a call returns is at least the start the previous call returned plus the
\* safe duration of that call plus the gap of 0.1 s, the cursor strictly
\* increases, and cameraBusyUntil never decreases.
C11_MonotonicSlots ==
    [][(reserved'.n = reserved.n + 1) =>
          /\ timeline'.currentTime > timeline.currentTime
          /\ timeline'.cameraBusyUntil >= timeline.cameraBusyUntil
          /\ reserved.n > 0 =>
                reserved'.start >= reserved.start + SafeOf(reserved.duration) + 100
      ]_vars

C11_Witness ==
    /\ reserved.n = 2
    /\ reserved.needsCamera /\ reserved.duration = Fin(1000)
    /\ reserved.before = [currentTime |-> 1100, cameraBusyUntil |-> 1100]
    /\ reserved.start = 1100
    /\ timeline.cameraBusyUntil = 2200

\* C12: a call of nextAvailableSlot with a NaN, infinite, zero or negative
\* duration moves the cursor forward by a finite amount above zero: the slot
\* lasts 0.5 s (NaN, infinite) or 0.1 s (zero, negative), plus the gap.
C12_SafeAdvance ==
    (reserved.n > 0 /\ (reserved.duration.k # "fin" \/ reserved.duration.v <= 0)) =>
        /\ timeline.currentTime \in Nat
        /\ reserved.start \in Nat
        /\ timeline.currentTime > reserved.before.currentTime
        /\ timeline.currentTime - reserved.start =
              (IF reserved.duration.k = "fin" THEN 100 ELSE 500) + 100

C12_Witness ==
    /\ reserved.n = 3
    /\ reserved.duration = Fin(-200)
    /\ reserved.before.currentTime = 1200
    /\ timeline.currentTime = 1400

\* C22: a call of nextAvailableSlot returns start = max(cursor,
\* cameraBusyUntil) if needsCamera and the cursor otherwise, plus 0.3 s when
\* narrationPause is set; afterwards the cursor is start + safeDuration +
\* 0.1 s, and cameraBusyUntil is that end if needsCamera and unchanged
\* otherwise.
C22_SlotAlgorithm ==
    reserved.n > 0 =>
        /\ reserved.start =
              (IF reserved.needsCamera
               THEN Max(reserved.before.currentTime,
                        reserved.before.cameraBusyUntil)
               ELSE reserved.before.currentTime)
                 + (IF reserved.narrationPause THEN 300 ELSE 0)
        /\ timeline.currentTime =
              reserved.start + SafeOf(reserved.duration) + 100
        /\ timeline.cameraBusyUntil =
              IF reserved.needsCamera THEN timeline.currentTime
              ELSE reserved.before.cameraBusyUntil

C22_Witness ==
    /\ reserved.n = 2
    /\ reserved.needsCamera /\ reserved.narrationPause
    /\ reserved.duration = Fin(1200)
    /\ reserved.before = [currentTime |-> 1100, cameraBusyUntil |-> 0]
    /\ reserved.start = 1400
    /\ timeline = [currentTime |-> 2700, cameraBusyUntil |-> 2700]

\* C27: after any sequence of nextAvailableSlot and reset calls
\* cameraBusyUntil <= cursor, so that a reservation starts at the cursor
\* (plus 0.3 s with narrationPause) whether it needs the camera or not.
C27_CameraNeverAhead ==
    /\ timeline.cameraBusyUntil <= timeline.currentTime
    /\ reserved.n > 0 =>
          reserved.start = reserved.before.currentTime
                              + (IF reserved.narrationPause THEN 300 ELSE 0)

C27_Witness ==
    /\ reserved.n = 3
    /\ reserved.needsCamera /\ ~reserved.narrationPause
    /\ reserved.before.cameraBusyUntil > 0
    /\ reserved.before.cameraBusyUntil < reserved.before.currentTime
    /\ reserved.start = reserved.before.currentTime
    /\ timeline.cameraBusyUntil = timeline.currentTime

(***************************************************************************)
(* Properties of the scenes compiled from semantic actions.                *)
(***************************************************************************)
\* the camera move a lies within the slot reserved for b
ContainedCamera(a, b) ==
    /\ IsCameraMove(a)
    /\ b.startTime <= a.startTime
    /\ ~LtNum(b.startTime + SafeOf(b.duration) + 100, EndTime(a))

\* C13: no two camera moves of a compiled scene overlap, and two actions of
\* a compiled scene either have disjoint intervals or one is a camera move
\* lying within the window reserved for the other.
C13_CameraExclusion ==
    \A i, j \in 1..Len(Actions) :
        i # j =>
            /\ (IsCameraMove(Actions[i]) /\ IsCameraMove(Actions[j]))
                  => ~Overlap(Actions[i], Actions[j])
            /\ \/ ~Overlap(Actions[i], Actions[j])
               \/ ContainedCamera(Actions[i], Actions[j])
               \/ ContainedCamera(Actions[j], Actions[i])

C13_Witness ==
    /\ Len(intents) = 2
    /\ \E i, j \in 1..Len(Actions) :
          /\ i < j
          /\ IsCameraMove(Actions[i]) /\ IsCameraMove(Actions[j])
          /\ Actions[j].startTime >= Actions[i].startTime + 1200
    /\ \E k \in 1..Len(Actions) : Actions[k].type = "draw"

\* the horizontal offset at which character i of a text is drawn
OffsetOf(text, i) ==
    SumSeq([j \in 1..(i - 1) |->
               IF text[j] = " " THEN SpaceWidth ELSE LetterWidth])

\* the glyph table holds the character, in its own or its upper-case form
InTable(ch) ==
    ch \in DOMAIN LETTER_PATHS \/ toUpperCase(ch) \in DOMAIN LETTER_PATHS

\* the strokes of a write action drawn at a horizontal offset
StrokesAt(a, x) == {k \in 1..Len(a.strokes) : a.strokes[k].path.x = x}

\* C18: in the strokes compiled for a text, every character that is not a
\* space has at least one stroke, and a character the glyph table does not
\* hold has exactly one, the placeholder rectangle, at a positive scale.
C18_PlaceholderGlyph ==
    \A k \in 1..Len(Actions) :
        Actions[k].type = "write" =>
            \A i \in 1..Len(Actions[k].text) :
                Actions[k].text[i] # " " =>
                    /\ StrokesAt(Actions[k], OffsetOf(Actions[k].text, i)) # {}
                    /\ ~InTable(Actions[k].text[i]) =>
                          /\ Cardinality(StrokesAt(Actions[k],
                                 OffsetOf(Actions[k].text, i))) = 1
                          /\ \A n \in StrokesAt(Actions[k],
                                          OffsetOf(Actions[k].text, i)) :
                                /\ Actions[k].strokes[n].path.glyph = "placeholder"
                                /\ Actions[k].strokes[n].path.scale > 0
                                /\ Actions[k].strokes[n].duration > 0

C18_Witness ==
    /\ Len(intents) = 1
    /\ Len(Actions) = 2
    /\ Actions[1].type = "write"
    /\ Actions[1].text = <<"#", "T">>
    /\ Len(Actions[1].strokes) = 3
    /\ Actions[1].strokes[1].path.glyph = "placeholder"
    /\ Actions[1].strokes[2].path.glyph = "T"

\* the actions appended by the last compiled semantic action
Appended == SubSeq(scene'.actions, Len(scene.actions) + 1, Len(scene'.actions))

\* this step compiles an explain_relation
CompilesRelation ==
    /\ Len(intents') = Len(intents) + 1
    /\ intents'[Len(intents')].kind = "explain_relation"

IsWriteOf(a, text, pos) ==
    a.type = "write" /\ a.text = text /\ a.position = <<pos>>

\* an action drawing the arrow from one anchor to the other
IsArrowBetween(a, from, to) ==
    /\ a.path # << >> /\ ~a.cameraMove
    /\ a.start = <<from>> /\ a.end = <<to>>

FarApart(s) == Abs(s.toPos[1] - s.fromPos[1]) > 400

InTimeOrder(acts) ==
    \A i \in 1..(Len(acts) - 1) : acts[i].startTime <= acts[i + 1].startTime

\* acts is write(from), a camera action iff the anchors are far apart, and
\* then the arrow and write(to), the arrow last or before write(to)
RelationActions(s, acts, arrowLast) ==
    LET k == IF FarApart(s) THEN 1 ELSE 0
    IN  /\ Len(acts) = 3 + k
        /\ IsWriteOf(acts[1], s.from, s.fromPos)
        /\ FarApart(s) => /\ IsCameraMove(acts[2])
                          /\ acts[2].type = "pause"
        /\ \A i \in 1..Len(acts) : IsCameraMove(acts[i]) => (k = 1 /\ i = 2)
        /\ IsArrowBetween(acts[IF arrowLast THEN 3 + k ELSE 2 + k],
                          s.fromPos, s.toPos)
        /\ IsWriteOf(acts[IF arrowLast THEN 2 + k ELSE 3 + k], s.to, s.toPos)
        /\ InTimeOrder(acts)

\* the camera is reserved by the camera action and by nothing else
CameraReservedByPan(s, acts) ==
    timeline'.cameraBusyUntil =
        IF FarApart(s) THEN acts[2].startTime + 1200 + 100
        ELSE timeline.cameraBusyUntil

\* C20 as claimed: explain_relation emits, in list and in time order,
\* write(from), a pause-typed camera action iff |toPos.x - fromPos.x| > 400,
\* write(to) and then the arrow; only the camera action reserves the camera.
C20_Original ==
    [][CompilesRelation =>
          /\ RelationActions(intents'[Len(intents')], Appended, TRUE)
          /\ CameraReservedByPan(intents'[Len(intents')], Appended)]_vars

\* C20: explain_relation emits, in list and in time order, write(from), a
\* pause-typed camera action iff |toPos.x - fromPos.x| > 400, the arrow and
\* then write(to); only the camera action reserves the camera.
C20_RelationOrder ==
    [][CompilesRelation =>
          /\ RelationActions(intents'[Len(intents')], Appended, FALSE)
          /\ CameraReservedByPan(intents'[Len(intents')], Appended)]_vars

C20_Witness ==
    /\ Len(intents) = 2
    /\ intents[1].kind = "explain_relation" /\ FarApart(intents[1])
    /\ intents[2].kind = "explain_relation" /\ ~FarApart(intents[2])
    /\ Len(Actions) = 7
    /\ IsCameraMove(Actions[2])
    /\ IsArrowBetween(Actions[3], intents[1].fromPos, intents[1].toPos)
    /\ IsWriteOf(Actions[7], intents[2].to, intents[2].toPos)
    /\ timeline.cameraBusyUntil = Actions[2].startTime + 1300

\* this step compiles an introduce_concept
CompilesConcept ==
    /\ Len(intents') = Len(intents) + 1
    /\ intents'[Len(intents')].kind = "introduce_concept"

\* the payload is a visual reference: an icon or an image
IsVisual(s) == s.isExplicitVisual \/ startsWith(s.concept, ImagePrefix)

IsThinkingBeat(a) ==
    a.type = "pause" /\ a.duration = Fin(500) /\ ~a.cameraMove

\* acts is what the claim gives for s, compiled from the cursor value cursor
ConceptActions(s, acts, cursor) ==
    IF IsVisual(s)
    THEN /\ Len(acts) = 1
         /\ acts[1].type = "image" /\ acts[1].startTime = cursor
    ELSE /\ Len(acts) = 2
         /\ IsWriteOf(acts[1], s.concept, s.position)
         /\ IsThinkingBeat(acts[2])

\* C21 as claimed: introduce_concept emits an image action at the reserved
\* slot for a visual payload (an image or an icon), and a write action
\* followed by a pause of 0.5 s otherwise; the write and the pause are
\* emitted for a payload that is not visual only.
C21_ConceptActions ==
    [][CompilesConcept =>
          ConceptActions(intents'[Len(intents')], Appended,
                         timeline.currentTime)]_vars

\* the durations of a list of strokes
DurationsOf(strokes) == [k \in 1..Len(strokes) |-> strokes[k].duration]

\* C24: every stroke returned by compile lasts estimatedLength * r / 100
\* clamped to [0.1, 0.5] s, with r = 0.15, 0.10, 0.06 for slow, medium,
\* fast; the durations are the same at every font size; a space moves the
\* pen forward and contributes no stroke.
C24_StrokeDurations ==
    cur.compiled =>
        /\ \A k \in 1..Len(cur.strokes) :
              /\ cur.strokes[k].duration =
                    Max(100,
                        Min((estimatePathLength(cur.strokes[k].path)
                                * (CASE cur.speed = "slow" -> 150
                                     [] cur.speed = "medium" -> 100
                                     [] cur.speed = "fast" -> 60)) \div 100,
                            500))
              /\ cur.strokes[k].duration >= 100
              /\ cur.strokes[k].duration <= 500
              /\ \E i \in 1..Len(cur.text) :
                    /\ cur.text[i] # " "
                    /\ cur.strokes[k].path.x = OffsetOf(cur.text, i)
        /\ DurationsOf(cur.otherStrokes) = DurationsOf(cur.strokes)
        /\ \A i \in 1..Len(cur.text) :
              IF cur.text[i] = " "
              THEN StrokesAt(cur, OffsetOf(cur.text, i)) = {}
              ELSE StrokesAt(cur, OffsetOf(cur.text, i)) # {}

C24_Witness ==
    /\ cur.compiled
    /\ cur.text = <<" ", "G">>
    /\ cur.speed = "slow"
    /\ cur.fontSize = 30 /\ cur.otherSize = 48
    /\ Len(cur.strokes) = 1
    /\ cur.strokes[1].duration = 300
    /\ cur.strokes[1].path.x = 16
    /\ cur.otherStrokes[1].path # cur.strokes[1].path

\* the start times and the durations of a list of actions
TimesOf(acts) == [i \in 1..Len(acts) |-> <<acts[i].startTime, acts[i].duration>>]

\* the slide is compiled to the default text that numbers the scene
NumberedDefault(s) == Len(s.content) = 0 /\ s.voiceScript = << >>

\* C25 as claimed: the timeline is at 0 at the start of each slide, so the
\* start times and the durations of the actions compiled for a slide are
\* those it gets as the first slide of a call, whatever slides precede it.
C25_Original ==
    Compiled =>
        TimesOf(Actions) = TimesOf(convertSlide(slide, NewTimeline, 0).scene.actions)

\* C25: the timeline is at 0 at the start of each slide: the start times and
\* the durations of the actions compiled for a slide, and the timeline after
\* it, are those a new timeline gives for a slide at the same place in the
\* list; they are those of the first slide of a call unless the slide has
\* no content item and no voice script, its text being "Concept N" with N
\* its place in the list.
C25_TimelinePerScene ==
    Compiled =>
        /\ TimesOf(Actions) =
              TimesOf(convertSlide(slide, NewTimeline, nScenes - 1).scene.actions)
        /\ timeline = convertSlide(slide, NewTimeline, nScenes - 1).tl
        /\ ~NumberedDefault(slide) =>
              TimesOf(Actions) =
                  TimesOf(convertSlide(slide, NewTimeline, 0).scene.actions)

C25_Witness ==
    /\ nScenes = 2
    /\ Len(slide.content) = 1 /\ slide.content[1].type = "heading"
    /\ Len(Actions) = 3
    /\ Actions[1].startTime = 300
    /\ TimesOf(Actions) = TimesOf(convertSlide(slide, NewTimeline, 0).scene.actions)

\* the cursor right after the reservation made for action i of the actions
\* appended by a step: the start of the slot reserved next (a write action
\* starts 0.3 s into its slot), or the cursor after the step
CursorAfter(acts, i) ==
    IF i = Len(acts) THEN timeline'.currentTime
    ELSE acts[i + 1].startTime
            - (IF acts[i + 1].type = "write" THEN NarrationPause ELSE 0)

\* C28: every action emitted lies inside the slot reserved for it: its start
\* is not before the cursor, its duration is at most the safe duration of
\* the slot (the cursor after the reservation is start + safe duration +
\* 0.1 s), and so it ends no later than the cursor after its reservation.
C28_InsideSlot ==
    [][\A i \in 1..Len(Appended) :
          /\ Appended[i].startTime >= timeline.currentTime
          /\ isFinite(Appended[i].duration)
          /\ Appended[i].duration.v
                <= CursorAfter(Appended, i) - Appended[i].startTime - SlotGap
          /\ Appended[i].startTime + Appended[i].duration.v
                <= CursorAfter(Appended, i)]_vars

C28_Witness ==
    /\ Len(intents) = 2
    /\ intents[1].kind = "emphasize" /\ intents[1].method = "underline"
    /\ intents[2].kind = "explain_relation"
    /\ Len(Actions) = 5
    /\ Actions[1].duration = Fin(800)
    /\ Actions[2].startTime = Actions[1].startTime + 1100 + 300
    /\ timeline.currentTime >= Actions[5].startTime + Actions[5].duration.v + 100

\* C29: in a compiled scene the start times strictly increase along the
\* list of actions and no action ends after the last one, so that the end of
\* the last action is the greatest end time of the scene.
C29_TimelineOrder ==
    Compiled =>
        /\ \A i \in 1..(Len(Actions) - 1) :
              Actions[i].startTime < Actions[i + 1].startTime
        /\ \A i \in 1..Len(Actions) :
              /\ isFinite(Actions[i].duration)
              /\ EndTime(Actions[i]).v <= EndTime(Actions[Len(Actions)]).v
        /\ EndTime(Actions[Len(Actions)]).v = MaxEnd(Actions)

C29_Witness ==
    /\ Compiled
    /\ Len(Actions) = 5
    /\ Actions[1].type = "image"
    /\ Actions[3].type = "write" /\ Actions[3].duration = Fin(0)
    /\ Actions[4].startTime = Actions[3].startTime + 200
    /\ Actions[5].duration = Fin(800)

\* the actions of the list returned, in the order returned
Returned == [i \in 1..Len(cur.active) |-> cur.active[i].action]

IsReturned(a) == \E i \in 1..Len(cur.active) : cur.active[i].action = a

\* the action is pending, in progress or complete at the time asked
PendingAt(a) == cur.t < cur.s + a.startTime

CompleteAt(a) ==
    ~PendingAt(a) /\ GeqNum(cur.t, NumAdd(cur.s + a.startTime, a.duration))

InProgressAt(a) == ~PendingAt(a) /\ ~CompleteAt(a)

\* the actions of a list that are returned, in the order of the list
RECURSIVE ReturnedOf(_)
ReturnedOf(acts) ==
    IF acts = << >> THEN << >>
    ELSE (IF IsReturned(Head(acts)) THEN <<Head(acts)>> ELSE << >>)
            \o ReturnedOf(Tail(acts))

\* C30: getActiveActions returns no pending action, returns every action in
\* progress at the time asked, returns a complete action exactly while the
\* time is before the end of the scene, and keeps the order of the actions
\* of the scene.
C30_ActiveActions ==
    cur.listed =>
        /\ \A i \in 1..Len(cur.scene.actions) :
              /\ PendingAt(cur.scene.actions[i])
                    => ~IsReturned(cur.scene.actions[i])
              /\ InProgressAt(cur.scene.actions[i])
                    => IsReturned(cur.scene.actions[i])
              /\ CompleteAt(cur.scene.actions[i])
                    => (IsReturned(cur.scene.actions[i])
                           <=> cur.t < cur.s + cur.scene.totalDuration)
        /\ Returned = ReturnedOf(cur.scene.actions)

====
